---- MODULE Spec2Model ----
(***************************************************************************)
(* A model of qwertyadrian/wextractor: the S3TC block decoders (the        *)
(* packaged src/wextractor/DXT.py and the older src/DXT.py), the package   *)
(* reader (src/packages.py), the mipmap decompressor and the texture       *)
(* stream parser (src/wextractor/decompress.py, textures.py).              *)
(*                                                                         *)
(* Byte strings are sequences of 0..255; At(s, i) is Python's s[i].        *)
(* Arrays allocated by the code (numpy arrays, bytearrays) are functions   *)
(* over 0..n-1, so that the source's indices are kept.                     *)
(***************************************************************************)
EXTENDS Integers, Sequences, FiniteSets, TLC

\* ------------------------------------------------------------------------
\* Python integer operators
\* ------------------------------------------------------------------------

\* v >> k
Shr(v, k) == v \div (2 ^ k)

\* v << k
Shl(v, k) == v * (2 ^ k)

RECURSIVE BitAnd(_, _)
\* a & b on non-negative integers
BitAnd(a, b) ==
    IF a = 0 \/ b = 0 THEN 0
    ELSE (a % 2) * (b % 2) + 2 * BitAnd(a \div 2, b \div 2)

RECURSIVE BitOr(_, _)
\* a | b on non-negative integers
BitOr(a, b) ==
    IF a = 0 THEN b
    ELSE IF b = 0 THEN a
    ELSE (IF a % 2 = 1 \/ b % 2 = 1 THEN 1 ELSE 0) + 2 * BitOr(a \div 2, b \div 2)

\* s[i] of a byte string (0-based)
At(s, i) == s[i + 1]

\* s[a:b] of a byte string: clipped at the end of s, never an error
Slice(s, a, b) ==
    LET e == IF b < Len(s) THEN b ELSE Len(s)
    IN  IF a >= e THEN << >> ELSE SubSeq(s, a + 1, e)

\* F of v, with v worked out once: a local variable assigned once and read
\* many times
Bind(v, F(_)) == CHOOSE y \in { F(x) : x \in {v} } : TRUE

\* How a call ended: not yet, with a value, or with an exception
NoResult == [status |-> "none", value |-> << >>]
Returned(v) == [status |-> "returned", value |-> v]
Raised(e) == [status |-> "raised", value |-> e]

\* DXTFlags
DXT1 == 1
DXT3 == 2
DXT5 == 4
DXTVariants == {DXT1, DXT3, DXT5}

\* ------------------------------------------------------------------------
\* src/wextractor/DXT.py: the per-block decoders
\* ------------------------------------------------------------------------

\* color_data[k] | (color_data[k + 1] << 8)
PackedColor(color_data, k) == BitOr(At(color_data, k), Shl(At(color_data, k + 1), 8))

\* RGB565 to RGB888, by scaling
RGB565to888(color) ==
    << (BitAnd(Shr(color, 11), 31) * 255) \div 31,
       (BitAnd(Shr(color, 5), 63) * 255) \div 63,
       (BitAnd(color, 31) * 255) \div 31 >>

\* The comparison with equal endpoints taken as the 4-colour case
Dxt1UsesThirdsOrEqual(color0, color1) == color0 >= color1

\* DXT1 takes the 4-colour palette only when color0 > color1
Dxt1UsesThirds(color0, color1) == color0 > color1

\* The palette of a DXT1 block, entries 0..3, each (r, g, b, a)
Dxt1Palette(block_data) ==
    LET color0 == PackedColor(block_data, 0)
        color1 == PackedColor(block_data, 2)
        e0 == RGB565to888(color0)
        e1 == RGB565to888(color1)
    IN  IF Dxt1UsesThirds(color0, color1)
        THEN [k \in 0..3 |->
                CASE k = 0 -> << e0[1], e0[2], e0[3], 255 >>
                  [] k = 1 -> << e1[1], e1[2], e1[3], 255 >>
                  [] k = 2 -> << (2 * e0[1] + e1[1]) \div 3,
                                 (2 * e0[2] + e1[2]) \div 3,
                                 (2 * e0[3] + e1[3]) \div 3, 255 >>
                  [] k = 3 -> << (e0[1] + 2 * e1[1]) \div 3,
                                 (e0[2] + 2 * e1[2]) \div 3,
                                 (e0[3] + 2 * e1[3]) \div 3, 255 >>]
        ELSE [k \in 0..3 |->
                CASE k = 0 -> << e0[1], e0[2], e0[3], 255 >>
                  [] k = 1 -> << e1[1], e1[2], e1[3], 255 >>
                  [] k = 2 -> << (e0[1] + e1[1]) \div 2,
                                 (e0[2] + e1[2]) \div 2,
                                 (e0[3] + e1[3]) \div 2, 255 >>
                  [] k = 3 -> << 0, 0, 0, 0 >>]

\* The palette of the colour part of a DXT3 or DXT5 block: always 4 colours,
\* entries are (r, g, b)
FourColorPalette(color_data) ==
    LET color0 == PackedColor(color_data, 0)
        color1 == PackedColor(color_data, 2)
        e0 == RGB565to888(color0)
        e1 == RGB565to888(color1)
    IN  [k \in 0..3 |->
            CASE k = 0 -> e0
              [] k = 1 -> e1
              [] k = 2 -> << (2 * e0[1] + e1[1]) \div 3,
                             (2 * e0[2] + e1[2]) \div 3,
                             (2 * e0[3] + e1[3]) \div 3 >>
              [] k = 3 -> << (e0[1] + 2 * e1[1]) \div 3,
                             (e0[2] + 2 * e1[2]) \div 3,
                             (e0[3] + 2 * e1[3]) \div 3 >>]

\* indices[i * 4 + j] = (color_data[i + 4] >> (j * 2)) & 0x3
ColorIndices(color_data) ==
    [p \in 0..15 |-> BitAnd(Shr(At(color_data, (p \div 4) + 4), (p % 4) * 2), 3)]

\* The two nibbles of each alpha byte taken the other way round
Dxt3AlphasHighFirst(block_data) ==
    [p \in 0..15 |->
        IF p % 2 = 1 THEN BitAnd(At(block_data, p \div 2), 15) * 17
        ELSE Shr(At(block_data, p \div 2), 4) * 17]

\* DXT3: alphas[i * 2] and alphas[i * 2 + 1] from block_data[i]
Dxt3Alphas(block_data) ==
    [p \in 0..15 |->
        IF p % 2 = 0 THEN BitAnd(At(block_data, p \div 2), 15) * 17
        ELSE Shr(At(block_data, p \div 2), 4) * 17]

\* The comparison with equal endpoints taken as the 8-value case
Dxt5UsesEightOrEqual(alpha0, alpha1) == alpha0 >= alpha1

\* DXT5 takes the 8-value alpha palette only when alpha0 > alpha1
Dxt5UsesEight(alpha0, alpha1) == alpha0 > alpha1

\* DXT5: the alpha palette, entries 0..7
Dxt5AlphaPalette(block_data) ==
    LET alpha0 == At(block_data, 0)
        alpha1 == At(block_data, 1)
    IN  IF Dxt5UsesEight(alpha0, alpha1)
        THEN [k \in 0..7 |->
                CASE k = 0 -> alpha0
                  [] k = 1 -> alpha1
                  [] OTHER -> ((6 - (k - 2)) * alpha0 + ((k - 2) + 1) * alpha1) \div 7]
        ELSE [k \in 0..7 |->
                CASE k = 0 -> alpha0
                  [] k = 1 -> alpha1
                  [] k = 6 -> 0
                  [] k = 7 -> 255
                  [] OTHER -> ((4 - (k - 2)) * alpha0 + ((k - 2) + 1) * alpha1) \div 5]

RECURSIVE Dxt5AlphaIndexLoop(_, _, _, _, _)
\* DXT5: the loop that takes 3 bits per pixel; st is (bits, current_byte) on
\* entry to iteration i and acc the indices written so far
Dxt5AlphaIndexLoop(block_data, i, bits, current_byte, acc) ==
    IF i = 16 THEN acc
    ELSE LET loaded == IF bits < 3
                       THEN BitOr(current_byte,
                                  Shl(At(block_data, 2 + ((i * 3) \div 8)), bits))
                       ELSE current_byte
             nbits  == IF bits < 3 THEN bits + 8 ELSE bits
         IN  Dxt5AlphaIndexLoop(block_data, i + 1, nbits - 3, Shr(loaded, 3),
                                [acc EXCEPT ![i] = BitAnd(loaded, 7)])

\* DXT5: alpha_indices[0..15]
Dxt5AlphaIndices(block_data) ==
    Dxt5AlphaIndexLoop(block_data, 0, 0, 0, [p \in 0..15 |-> 0])

\* The 16 values a block decoder hands to pixels, tile[i * 4 + j] being what
\* it stores at pixels[y + i, x + j] when that pixel is inside the image:
\* (r, g, b, a)
Tile(block_data, format_type) ==
    CASE format_type = DXT1 ->
            LET pal == Dxt1Palette(block_data)
                idx == ColorIndices(block_data)
            IN  [p \in 0..15 |-> pal[idx[p]]]
      [] format_type = DXT3 ->
            LET color_data == Slice(block_data, 8, 16)
                pal == FourColorPalette(color_data)
                idx == ColorIndices(color_data)
                alphas == Dxt3Alphas(block_data)
            IN  [p \in 0..15 |-> pal[idx[p]] \o << alphas[p] >>]
      [] format_type = DXT5 ->
            LET color_data == Slice(block_data, 8, 16)
                pal == FourColorPalette(color_data)
                idx == ColorIndices(color_data)
                apal == Dxt5AlphaPalette(block_data)
                aidx == Dxt5AlphaIndices(block_data)
            IN  [p \in 0..15 |-> pal[idx[p]] \o << apal[aidx[p]] >>]

\* ------------------------------------------------------------------------
\* src/DXT.py: the older per-block decoder
\* ------------------------------------------------------------------------

\* The packed value of an endpoint
Unpack565Value(block, blockIndex, packedOffset) ==
    BitOr(At(block, blockIndex + packedOffset),
          Shl(At(block, blockIndex + 1 + packedOffset), 8))

\* unpack565: the colour array after the endpoint was expanded into
\* colour[colourOffset .. colourOffset + 3]
Unpack565(block, blockIndex, packedOffset, colour, colourOffset) ==
    LET value == Unpack565Value(block, blockIndex, packedOffset)
        red   == BitAnd(Shr(value, 11), 31)
        green == BitAnd(Shr(value, 5), 63)
        blue  == BitAnd(value, 31)
    IN  [colour EXCEPT ![0 + colourOffset] = BitOr(Shl(red, 3), Shr(red, 2)),
                       ![1 + colourOffset] = BitOr(Shl(green, 2), Shr(green, 4)),
                       ![2 + colourOffset] = BitOr(Shl(blue, 3), Shr(blue, 2)),
                       ![3 + colourOffset] = 255]

\* isDxt1 and a <= b
ThreeColourMode(isDxt1, a, b) == isDxt1 /\ a <= b

\* decompressColor: the indices; the loop runs over range(3), so only the
\* bytes at offsets 4, 5 and 6 are unpacked and indices[12..15] stay 0
LegacyColourIndices(block, blockIndex) ==
    [p \in 0..15 |->
        IF p \div 4 < 3
        THEN BitAnd(Shr(At(block, blockIndex + 4 + (p \div 4)), 2 * (p % 4)), 3)
        ELSE 0]

\* decompressColor: "store out the colours"
StoreColours(rgba, codes, indices) ==
    [q \in 0..63 |-> codes[4 * indices[q \div 4] + (q % 4)]]

RECURSIVE DecompressColorLoop(_, _, _, _, _, _, _, _)
\* decompressColor: the body of "for i in range(3)", which (by its
\* indentation) holds the alpha fill, the index unpacking and the store too
DecompressColorLoop(rgba, codes, block, blockIndex, isDxt1, a, b, i) ==
    IF i = 3 THEN [rgba |-> rgba, codes |-> codes]
    ELSE LET c == codes[i]
             d == codes[4 + i]
             mid == IF ThreeColourMode(isDxt1, a, b)
                    THEN [codes EXCEPT ![8 + i] = (c + d) \div 2, ![12 + i] = 0]
                    ELSE [codes EXCEPT ![8 + i] = (2 * c + d) \div 3,
                                       ![12 + i] = (c + 2 * d) \div 3]
             filled == [mid EXCEPT ![8 + 3] = 255,
                                   ![12 + 3] = IF ThreeColourMode(isDxt1, a, b)
                                               THEN 0 ELSE 255]
             indices == LegacyColourIndices(block, blockIndex)
         IN  DecompressColorLoop(StoreColours(rgba, filled, indices), filled,
                                 block, blockIndex, isDxt1, a, b, i + 1)

\* decompressColor: rgba and codes when it returns
DecompressColorFull(rgba, block, blockIndex, isDxt1) ==
    LET codes0 == [k \in 0..15 |-> 0]
        a == Unpack565Value(block, blockIndex, 0)
        codes1 == Unpack565(block, blockIndex, 0, codes0, 0)
        b == Unpack565Value(block, blockIndex, 2)
        codes2 == Unpack565(block, blockIndex, 2, codes1, 4)
    IN  DecompressColorLoop(rgba, codes2, block, blockIndex, isDxt1, a, b, 0)

decompressColor(rgba, block, blockIndex, isDxt1) ==
    DecompressColorFull(rgba, block, blockIndex, isDxt1).rgba

\* decompressAlphaDxt3
decompressAlphaDxt3(rgba, block, blockIndex) ==
    [q \in 0..63 |->
        IF q % 8 = 3
        THEN LET lo == BitAnd(At(block, blockIndex + (q \div 8)), 15)
             IN  BitOr(lo, Shl(lo, 4))
        ELSE IF q % 8 = 7
        THEN LET hi == BitAnd(At(block, blockIndex + (q \div 8)), 240)
             IN  BitOr(hi, Shr(hi, 4))
        ELSE rgba[q]]

\* alpha0 <= alpha1
FiveAlphaCodebook(alpha0, alpha1) == alpha0 <= alpha1

RECURSIVE AlphaCodesLoop(_, _, _, _)
\* decompressAlphaDxt5: either codebook loop, "for i in range(5)"
AlphaCodesLoop(codes, alpha0, alpha1, i) ==
    IF i = 5 THEN codes
    ELSE IF FiveAlphaCodebook(alpha0, alpha1)
    THEN AlphaCodesLoop([codes EXCEPT ![1 + i] = ((5 - i) * alpha0 + i * alpha1) \div 5,
                                      ![6] = 0,
                                      ![7] = 255],
                        alpha0, alpha1, i + 1)
    ELSE AlphaCodesLoop([codes EXCEPT ![i + 1] = ((7 - i) * alpha0 + i * alpha1) \div 7],
                        alpha0, alpha1, i + 1)

\* decompressAlphaDxt5: the codebook
LegacyAlphaCodes(block, blockIndex) ==
    LET alpha0 == At(block, blockIndex + 0)
        alpha1 == At(block, blockIndex + 1)
        codes  == [[k \in 0..7 |-> 0] EXCEPT ![0] = alpha0, ![1] = alpha1]
    IN  AlphaCodesLoop(codes, alpha0, alpha1, 0)

\* decompressAlphaDxt5: indices; two 3-byte little-endian values, 8 indices each
LegacyAlphaIndices(block, blockIndex) ==
    [p \in 0..15 |->
        LET i == p \div 8
            j == p % 8
            value == BitOr(BitOr(At(block, blockIndex + 2 + 3 * i),
                                 Shl(At(block, blockIndex + 2 + 3 * i + 1), 8)),
                           Shl(At(block, blockIndex + 2 + 3 * i + 2), 16))
        IN  BitAnd(Shr(value, 3 * j), 7)]

\* decompressAlphaDxt5
decompressAlphaDxt5(rgba, block, blockIndex) ==
    LET codes   == LegacyAlphaCodes(block, blockIndex)
        indices == LegacyAlphaIndices(block, blockIndex)
    IN  [q \in 0..63 |-> IF q % 4 = 3 THEN codes[indices[q \div 4]] ELSE rgba[q]]

\* decompress: one block into the 64-byte tile rgba
decompress(rgba, block, blockIndex, flags) ==
    LET colorBlockIndex == IF BitAnd(flags, BitOr(DXT3, DXT5)) # 0
                           THEN blockIndex + 8 ELSE blockIndex
        coloured == decompressColor(rgba, block, colorBlockIndex,
                                    BitAnd(flags, DXT1) # 0)
    IN  IF BitAnd(flags, DXT3) # 0 THEN decompressAlphaDxt3(coloured, block, blockIndex)
        ELSE IF BitAnd(flags, DXT5) # 0 THEN decompressAlphaDxt5(coloured, block, blockIndex)
        ELSE coloured

\* The highest index of block that decompress reads, from blockIndex
LegacyLastRead(flags) == IF BitAnd(flags, DXT1) # 0 THEN 6 ELSE 14

\* ------------------------------------------------------------------------
\* src/wextractor/DXT.py: decompress_image
\* ------------------------------------------------------------------------

\* block_size
BlockSize(format_type) == IF format_type = DXT1 THEN 8 ELSE 16

\* channels: 4 if has_alpha else 3
Channels(format_type) == IF format_type = DXT1 THEN 3 ELSE 4

\* blocks_width, blocks_height
BlocksAcross(n) == (n + 3) \div 4

\* expected_size
ExpectedSize(width, height, format_type) ==
    BlocksAcross(width) * BlocksAcross(height) * BlockSize(format_type)

\* np.zeros((height, width, channels))
ZeroPixels(width, height, channels) ==
    [c \in (0..(height - 1)) \X (0..(width - 1)) |-> [k \in 1..channels |-> 0]]

\* The guard off by one in the column
FillGuardWide(y, i, x, j, width, height) == y + i < height /\ x + j <= width

\* The guard of the fill loops: y + i < height and x + j < width
FillGuard(y, i, x, j, width, height) == y + i < height /\ x + j < width

\* The tile positions a block decoder stores, for the block at (x, y)
StoredPositions(x, y, width, height) ==
    {p \in 0..15 : FillGuard(y, p \div 4, x, p % 4, width, height)}

\* The pixel a tile position is stored at: (row, column)
StoreTarget(x, y, p) == << y + (p \div 4), x + (p % 4) >>

\* "Fill the pixels array" of a block decoder: the array after the stores;
\* a later store to the same pixel overwrites an earlier one
FillPixels(pixels, block_data, format_type, x, y, width, height) ==
    LET t == Tile(block_data, format_type)
        ch == Channels(format_type)
        stored == StoredPositions(x, y, width, height)
    IN  [c \in DOMAIN pixels |->
            LET ps == {p \in stored : StoreTarget(x, y, p) = c}
            IN  IF ps = {} THEN pixels[c]
                ELSE LET p == CHOOSE q \in ps : \A r \in ps : r <= q
                     IN  SubSeq(t[p], 1, ch)]

\* The stores of a block decoder that numpy refuses (IndexError)
FillOutside(x, y, width, height) ==
    {p \in StoredPositions(x, y, width, height) :
        StoreTarget(x, y, p)[1] >= height \/ StoreTarget(x, y, p)[2] >= width}

\* pixels.tobytes(), row-major
ToBytes(pixels, width, height, channels) ==
    [t \in 1..(height * width * channels) |->
        pixels[<< (t - 1) \div (width * channels),
                  ((t - 1) \div channels) % width >>][((t - 1) % channels) + 1]]

\* ------------------------------------------------------------------------
\* src/DXT.py: decompressImage
\* ------------------------------------------------------------------------

\* bytesPerBlock
BytesPerBlock(flags) == IF BitAnd(flags, DXT1) # 0 THEN 8 ELSE 16

\* sx < width and sy < height
LegacyGuard(sx, sy, width, height) == sx < width /\ sy < height

\* The tile positions decompressImage copies, for the block at (x, y)
LegacyCopied(x, y, width, height) ==
    {p \in 0..15 : LegacyGuard(x + (p % 4), y + (p \div 4), width, height)}

\* targetPixel, in pixels: width * sy + sx
TargetPixel(x, y, p, width) == width * (y + (p \div 4)) + (x + (p % 4))

\* "Write the decompressed pixels to the correct image locations"
CopyTile(rgba, targetRGBA, x, y, width, height) ==
    LET copied == LegacyCopied(x, y, width, height)
    IN  [q \in DOMAIN rgba |->
            LET ps == {p \in copied : TargetPixel(x, y, p, width) = q \div 4}
            IN  IF ps = {} THEN rgba[q]
                ELSE LET p == CHOOSE r \in ps : \A r2 \in ps : r2 <= r
                     IN  targetRGBA[4 * p + (q % 4)]]

\* The copies that fall past the end of rgba (IndexError)
CopyOutside(x, y, width, height) ==
    {p \in LegacyCopied(x, y, width, height) :
        TargetPixel(x, y, p, width) >= width * height}

\* A bytearray as a byte string
AsBytes(arr, n) == [t \in 1..n |-> arr[t - 1]]


\* ------------------------------------------------------------------------
\* Byte strings and text
\* ------------------------------------------------------------------------

\* The characters of code 32..126, in order; the grave accent (96), which a
\* string constant cannot hold, is written <96>
PrintableAscii ==
    <<
       " ", "!", "\"", "#", "$", "%", "&", "'", "(", ")", "*", "+",
       ",", "-", ".", "/", "0", "1", "2", "3", "4", "5", "6", "7",
       "8", "9", ":", ";", "<", "=", ">", "?", "@", "A", "B", "C",
       "D", "E", "F", "G", "H", "I", "J", "K", "L", "M", "N", "O",
       "P", "Q", "R", "S", "T", "U", "V", "W", "X", "Y", "Z", "[",
       "\\", "]", "^", "_", "<96>", "a", "b", "c", "d", "e", "f", "g",
       "h", "i", "j", "k", "l", "m", "n", "o", "p", "q", "r", "s",
       "t", "u", "v", "w", "x", "y", "z", "{", "|", "}", "~"
    >>

RECURSIVE Decode(_)
\* bytes.decode() of ASCII bytes; a control character is written ^ and the
\* character 64 above it. Callers test Decodable first.
Decode(bs) ==
    IF bs = << >> THEN ""
    ELSE (IF bs[1] >= 32 /\ bs[1] <= 126 THEN PrintableAscii[bs[1] - 31]
          ELSE "^" \o PrintableAscii[((bs[1] + 64) % 128) - 31])
         \o Decode(Tail(bs))

\* Whether bytes.decode() accepts bs. The inputs hold ASCII bytes and the
\* byte 255, which no UTF-8 text contains.
Decodable(bs) == \A i \in 1..Len(bs) : bs[i] < 128

RECURSIVE FromBytesLE(_)
\* int.from_bytes(bs, "little", signed=False); 0 for no bytes
FromBytesLE(bs) == IF bs = << >> THEN 0 ELSE bs[1] + 256 * FromBytesLE(Tail(bs))

\* n as 4 bytes, low byte first
U32(n) == << n % 256, (n \div 256) % 256, (n \div 65536) % 256, (n \div 16777216) % 256 >>

\* fd.read(n) at position pos of a stream: what is left, at most n bytes
Read(stream, pos, n) == Slice(stream, pos, pos + n)

\* ------------------------------------------------------------------------
\* src/packages.py
\* ------------------------------------------------------------------------

\* _read_str at pos: the text and the position after it
ReadStr(stream, pos) ==
    LET szb  == Read(stream, pos, 4)
        size == FromBytesLE(szb)
        buf  == Read(stream, pos + Len(szb), size)
    IN  [str |-> Decode(buf), pos |-> pos + Len(szb) + Len(buf)]

\* The entry put in place of an earlier one of the same name
AppendFileByName(files, file) ==
    IF \E k \in 1..Len(files) : files[k].name = file.name
    THEN [k \in 1..Len(files) |-> IF files[k].name = file.name THEN file ELSE files[k]]
    ELSE Append(files, file)

\* self.files.append(File(...))
AppendFile(files, file) == Append(files, file)

RECURSIVE ReadFiles(_, _, _, _)
\* _read_files: the loop from iteration i, st = [files, pos, ds_ptr]; _ds_ptr
\* is assigned inside the loop body
ReadFiles(stream, filecount, i, st) ==
    IF i >= filecount THEN st
    ELSE LET nm  == ReadStr(stream, st.pos)
             ob  == Read(stream, nm.pos, 4)
             sb  == Read(stream, nm.pos + Len(ob), 4)
             end == nm.pos + Len(ob) + Len(sb)
         IN  ReadFiles(stream, filecount, i + 1,
                       [files  |-> AppendFile(st.files,
                                              [name   |-> nm.str,
                                               offset |-> FromBytesLE(ob),
                                               size   |-> FromBytesLE(sb)]),
                        pos    |-> end,
                        ds_ptr |-> end])

\* The position left where it was
SeekSetKept(pos, target) == pos

\* self._fd.seek(self._ds_ptr, io.SEEK_SET): the position after it
SeekSet(pos, target) == target

\* self._fd.seek(file.offset, io.SEEK_CUR): the position after it
SeekCur(pos, delta) == pos + delta


\* ------------------------------------------------------------------------
\* src/DXTDecompress.py: DXTBuffer
\* ------------------------------------------------------------------------

\* unpack(_bytes): KeyError for a length STRUCT_SIGNS has no sign for. A value
\* of 4 bytes is kept as its bytes and read through Field.
unpack(bs) == IF Len(bs) \in {1, 2, 4, 8} THEN Returned(bs) ELSE Raised("KeyError")

\* (v >> k) & (2^n - 1), n <= 3, of the unsigned value v held low byte first
\* in bs
Field(bs, k, n) ==
    LET bit(q) == IF q \div 8 < Len(bs) THEN (bs[q \div 8 + 1] \div (2 ^ (q % 8))) % 2
                  ELSE 0
    IN  bit(k) + (IF n > 1 THEN 2 * bit(k + 1) ELSE 0)
               + (IF n > 2 THEN 4 * bit(k + 2) ELSE 0)

\* unpackRGB(packed)
unpackRGB(packed) ==
    LET R == BitAnd(Shr(packed, 11), 31)
        G == BitAnd(Shr(packed, 5), 63)
        B == BitAnd(packed, 31)
    IN  << BitOr(Shl(R, 3), Shr(R, 2)), BitOr(Shl(G, 2), Shr(G, 4)),
           BitOr(Shl(B, 3), Shr(B, 2)), 255 >>

\* c0 > c1 on tuples of equal length
TupleGreater(c0, c1) ==
    \E k \in 1..Len(c0) : c0[k] > c1[k] /\ \A q \in 1..(k - 1) : c0[q] = c1[q]

\* DXTBuffer.getAlpha: the code it takes from the table (acode1 is atable[0:2],
\* acode0 is atable[2:6])
getAlphaCode(i, j, atable) ==
    LET alpha_index == 3 * (4 * j + i)
        acode1 == Slice(atable, 0, 2)
        acode0 == Slice(atable, 2, 6)
    IN  IF alpha_index <= 12 THEN Field(acode1, alpha_index, 3)
        ELSE IF alpha_index = 15
        THEN BitOr(Field(acode1, 15, 1), 2 * Field(acode0, 0, 2))
        ELSE Field(acode0, alpha_index - 16, 3)

\* DXTBuffer.getAlpha: the alpha of a code
getAlphaValue(alpha_code, a0, a1) ==
    IF alpha_code = 0 THEN a0
    ELSE IF alpha_code = 1 THEN a1
    ELSE IF a0 > a1 THEN ((8 - alpha_code) * a0 + (alpha_code - 1) * a1) \div 7
    ELSE IF alpha_code = 6 THEN 0
    ELSE IF alpha_code = 7 THEN 255
    ELSE IF alpha_code = 5 THEN (1 * a0 + 4 * a1) \div 5
    ELSE IF alpha_code = 4 THEN (2 * a0 + 3 * a1) \div 5
    ELSE IF alpha_code = 3 THEN (3 * a0 + 2 * a1) \div 5
    ELSE IF alpha_code = 2 THEN (4 * a0 + 1 * a1) \div 5
    ELSE 0

\* DXTBuffer.getAlpha
getAlpha(i, j, a0, a1, atable) == getAlphaValue(getAlphaCode(i, j, atable), a0, a1)

\* DXTBuffer.getColors: pixel_color
getColors(i, j, ctable, c0, c1, alpha) ==
    LET code == Field(ctable, 2 * (4 * i + j), 2)
    IN  IF code = 0 THEN << c0[1], c0[2], c0[3], alpha >>
        ELSE IF code = 1 THEN << c1[1], c1[2], c1[3], alpha >>
        ELSE IF TupleGreater(c0, c1)
        THEN IF code = 2
             THEN << (2 * c0[1] + c1[1]) \div 3, (2 * c0[2] + c1[2]) \div 3,
                     (2 * c0[3] + c1[3]) \div 3, alpha >>
             ELSE << (c0[1] + 2 * c1[1]) \div 3, (c0[2] + 2 * c1[2]) \div 3,
                     (c0[3] + 2 * c1[3]) \div 3, alpha >>
        ELSE IF code = 2
             THEN << (c0[1] + c1[1]) \div 2, (c0[2] + c1[2]) \div 2,
                     (c0[3] + c1[3]) \div 2, alpha >>
             ELSE << 0, 0, 0, alpha >>

\* The reads DXT5Decompress (with_alpha) or DXT1Decompress makes for one block
\* from position pos of the file: the first error, or the fields
ReadBlockFields(file, pos, with_alpha) ==
    LET a0     == unpack(Read(file, pos, 1))
        a1     == unpack(Read(file, pos + 1, 1))
        atable == Read(file, pos + 2, 6)
        at     == IF with_alpha THEN pos + 8 ELSE pos
        c0     == unpack(Read(file, at, 2))
        c1     == unpack(Read(file, at + 2, 2))
        ctable == unpack(Read(file, at + 4, 4))
    IN  IF with_alpha /\ a0.status = "raised" THEN [err |-> a0.value]
        ELSE IF with_alpha /\ a1.status = "raised" THEN [err |-> a1.value]
        ELSE IF with_alpha /\ Len(atable) < 6 THEN [err |-> "IndexError"]
        ELSE IF c0.status = "raised" THEN [err |-> c0.value]
        ELSE IF c1.status = "raised" THEN [err |-> c1.value]
        ELSE IF ctable.status = "raised" THEN [err |-> ctable.value]
        ELSE [err |-> "", a0 |-> IF with_alpha THEN a0.value[1] ELSE 255,
              a1 |-> IF with_alpha THEN a1.value[1] ELSE 255,
              atable |-> atable,
              c0 |-> unpackRGB(FromBytesLE(c0.value)),
              c1 |-> unpackRGB(FromBytesLE(c1.value)),
              ctable |-> ctable.value]

\* The 4x4 loop of one block: getColors(row * 4, col * 4, i, j, ...) stores
\* at (y + j) * width + (x + i) when x + i < width; IndexError past the buffer
StoreBlock(buffer, width, x, y, f, with_alpha) ==
    LET at(i, j) == (y + j) * width + (x + i)
        alpha(i, j) == IF with_alpha THEN getAlpha(j, i, f.a0, f.a1, f.atable) ELSE 255
    IN  IF \E i \in 0..3, j \in 0..3 : x + i < width /\ at(i, j) \notin DOMAIN buffer
        THEN Raised("IndexError")
        ELSE Returned([k \in DOMAIN buffer |->
                 IF \E i \in 0..3, j \in 0..3 : x + i < width /\ at(i, j) = k
                 THEN LET ij == CHOOSE ij \in (0..3) \X (0..3) :
                                   x + ij[1] < width /\ at(ij[1], ij[2]) = k
                      IN  getColors(ij[1], ij[2], f.ctable, f.c0, f.c1,
                                    alpha(ij[1], ij[2]))
                 ELSE buffer[k]])

RECURSIVE JoinBuffer(_, _)
\* b''.join([_ for _ in self.decompressed_buffer if _ != 'X']) from entry k
\* on; an entry never stored is << >>
JoinBuffer(buffer, k) ==
    IF k \notin DOMAIN buffer THEN << >> ELSE buffer[k] \o JoinBuffer(buffer, k + 1)

RECURSIVE DecompressBuffer(_, _, _, _, _, _)
\* DXTBuffer.DXT5Decompress (with_alpha) and DXT1Decompress from block n on
DecompressBuffer(buffer, width, height, file, n, with_alpha) ==
    IF n >= (width \div 4) * (height \div 4) THEN Returned(JoinBuffer(buffer, 0))
    ELSE Bind(ReadBlockFields(file, n * (IF with_alpha THEN 16 ELSE 8), with_alpha),
              LAMBDA f :
                IF f.err # "" THEN Raised(f.err)
                ELSE Bind(StoreBlock(buffer, width, 4 * (n \div (width \div 4)),
                                     4 * (n % (width \div 4)), f, with_alpha),
                          LAMBDA b :
                            IF b.status = "raised" THEN b
                            ELSE DecompressBuffer(b.value, width, height, file, n + 1,
                                                  with_alpha)))

\* DXTBuffer(width, height): decompressed_buffer
NewBuffer(width, height) == [k \in 0..(width * height * 2 - 1) |-> << >>]

\* DXTBuffer(width, height).DXT5Decompress(io.BytesIO(data))
DXT5Decompress(width, height, file) ==
    DecompressBuffer(NewBuffer(width, height), width, height, file, 0, TRUE)

\* DXTBuffer(width, height).DXT1Decompress(io.BytesIO(data))
DXT1Decompress(width, height, file) ==
    DecompressBuffer(NewBuffer(width, height), width, height, file, 0, FALSE)

\* ------------------------------------------------------------------------
\* src/wextractor/decompress.py
\* ------------------------------------------------------------------------

\* MipmapFormat
MipmapFormat_Invalid == 0
MipmapFormat_RGBA8888 == 1
MipmapFormat_R8 == 2
MipmapFormat_RG88 == 3
MipmapFormat_CompressedDXT5 == 4
MipmapFormat_CompressedDXT3 == 5
MipmapFormat_CompressedDXT1 == 6
MipmapFormat_VideoMP4 == 7
MipmapFormat_ImageBMP == 1000
MipmapFormat_ImagePNG == 1014

\* A TexMipmap of src/wextractor/textures.py
TexMipmap(data, width, height, is_lz4_compressed, decompressed_bytes_count, format) ==
    [data |-> data, width |-> width, height |-> height,
     is_lz4_compressed |-> is_lz4_compressed,
     decompressed_bytes_count |-> decompressed_bytes_count, format |-> format]

\* MipmapFormat.is_image
is_image(mipmap_format) == mipmap_format >= MipmapFormat_ImageBMP

RECURSIVE DecompressBlocks(_, _, _, _, _, _)
\* decompress_image: "for by ... for bx ..." from block_idx on
DecompressBlocks(pixels, data, format_type, width, height, block_idx) ==
    IF block_idx >= BlocksAcross(width) * BlocksAcross(height) THEN pixels
    ELSE LET offset == block_idx * BlockSize(format_type)
             blk == Slice(data, offset, offset + BlockSize(format_type))
             x == (block_idx % BlocksAcross(width)) * 4
             y == (block_idx \div BlocksAcross(width)) * 4
         IN  DecompressBlocks(FillPixels(pixels, blk, format_type, x, y, width, height),
                              data, format_type, width, height, block_idx + 1)

\* decompress_image as one call: the bytes returned or the error raised
decompress_image(width, height, data, format_type) ==
    IF format_type \notin DXTVariants THEN Raised("ValueError")
    ELSE IF Len(data) < ExpectedSize(width, height, format_type)
    THEN Raised("ValueError")
    ELSE IF \E b \in 0..(BlocksAcross(width) * BlocksAcross(height) - 1) :
               FillOutside((b % BlocksAcross(width)) * 4,
                           (b \div BlocksAcross(width)) * 4, width, height) # {}
    THEN Raised("IndexError")
    ELSE Returned(ToBytes(DecompressBlocks(ZeroPixels(width, height, Channels(format_type)),
                                           data, format_type, width, height, 0),
                          width, height, Channels(format_type)))

\* A shorter output let through
LengthMatchesOrShort(decompressed, decompressed_bytes_count) ==
    Len(decompressed) <= decompressed_bytes_count

\* not (len(decompressed) != decompressed_bytes_count)
LengthMatches(decompressed, decompressed_bytes_count) ==
    Len(decompressed) = decompressed_bytes_count

\* lz4decompress, given what lz4.block.decompress does with the data: reply is
\* the bytes it returns or the error it raises
lz4decompress(reply, decompressed_bytes_count) ==
    IF reply.status = "raised" THEN reply
    ELSE IF ~LengthMatches(reply.value, decompressed_bytes_count)
    THEN Raised("DecompressionError")
    ELSE reply

\* The format left as it was
DecodedFormatKept(format) == format

\* mipmap.format = MipmapFormat.RGBA8888, after decompress_image
DecodedFormat(format) == MipmapFormat_RGBA8888

\* The DXTFlags value of the case that matches mipmap.format
MatchedVariant(format) ==
    IF format = MipmapFormat_CompressedDXT5 THEN DXT5
    ELSE IF format = MipmapFormat_CompressedDXT3 THEN DXT3
    ELSE DXT1

\* decompress_mipmap(mipmap): the mipmap it leaves, what it returns ("mipmap",
\* "None") or raises, and the DXTFlags variant it called decompress_image
\* with (0 when it did not call it)
decompress_mipmap(mipmap, reply) ==
    LET lz4 == IF mipmap.is_lz4_compressed
               THEN lz4decompress(reply, mipmap.decompressed_bytes_count)
               ELSE Returned(mipmap.data)
        plain == [mipmap EXCEPT !.data = lz4.value, !.is_lz4_compressed = FALSE]
    IN  IF lz4.status = "raised" THEN [mipmap |-> mipmap, result |-> lz4, variant |-> 0]
        ELSE IF is_image(plain.format)
        THEN [mipmap |-> plain, result |-> Returned("mipmap"), variant |-> 0]
        ELSE IF plain.format \in {MipmapFormat_CompressedDXT5,
                                  MipmapFormat_CompressedDXT3,
                                  MipmapFormat_CompressedDXT1}
        THEN Bind(decompress_image(plain.width, plain.height, plain.data,
                                   MatchedVariant(plain.format)),
                  LAMBDA image :
                    IF image.status = "raised"
                    THEN [mipmap |-> plain, result |-> image,
                          variant |-> MatchedVariant(plain.format)]
                    ELSE [mipmap |-> [plain EXCEPT !.data = image.value,
                                                   !.format = DecodedFormat(plain.format)],
                          result |-> Returned("None"),
                          variant |-> MatchedVariant(plain.format)])
        ELSE [mipmap |-> plain, result |-> Returned("None"), variant |-> 0]

\* ------------------------------------------------------------------------
\* src/textures.py: TexMipmapDecompressor
\* ------------------------------------------------------------------------

\* TexMipmapDecompressor.lz4decompress, given what lz4.block.decompress does
LegacyLz4decompress(reply, DecompressedBytesCount) ==
    IF reply.status = "raised" THEN reply
    ELSE IF Len(reply.value) # DecompressedBytesCount
    THEN Raised("DecompressionError")
    ELSE reply

\* The DXTBuffer decoder the case that matches mipmap.Format calls, as the
\* DXTFlags value of its variant: DXT5Decompress for CompressedDXT5 and
\* CompressedDXT3, DXT1Decompress for CompressedDXT1
LegacyMatchedVariant(Format) ==
    IF Format \in {MipmapFormat_CompressedDXT5, MipmapFormat_CompressedDXT3} THEN DXT5
    ELSE DXT1

\* TexMipmapDecompressor(mipmap).decompressMipmap(): the mipmap it leaves, what
\* it returns or raises, and the variant of the decoder it called (0 for none)
decompressMipmap(mipmap, reply) ==
    LET lz4 == IF mipmap.is_lz4_compressed
               THEN LegacyLz4decompress(reply, mipmap.decompressed_bytes_count)
               ELSE Returned(mipmap.data)
        plain == [mipmap EXCEPT !.data = lz4.value, !.is_lz4_compressed = FALSE]
    IN  IF lz4.status = "raised" THEN [mipmap |-> mipmap, result |-> lz4, variant |-> 0]
        ELSE IF is_image(plain.format)
        THEN [mipmap |-> plain, result |-> Returned("None"), variant |-> 0]
        ELSE IF plain.format \in {MipmapFormat_CompressedDXT5,
                                  MipmapFormat_CompressedDXT3,
                                  MipmapFormat_CompressedDXT1}
        THEN Bind(IF LegacyMatchedVariant(plain.format) = DXT5
                  THEN DXT5Decompress(plain.width, plain.height, plain.data)
                  ELSE DXT1Decompress(plain.width, plain.height, plain.data),
                  LAMBDA image :
                    IF image.status = "raised"
                    THEN [mipmap |-> plain, result |-> image,
                          variant |-> LegacyMatchedVariant(plain.format)]
                    ELSE [mipmap |-> [plain EXCEPT !.data = image.value,
                                                   !.format = MipmapFormat_RGBA8888],
                          result |-> Returned("None"),
                          variant |-> LegacyMatchedVariant(plain.format)])
        ELSE [mipmap |-> plain, result |-> Returned("None"), variant |-> 0]

\* ------------------------------------------------------------------------
\* src/wextractor/extensions.py, src/wextractor/enums.py
\* ------------------------------------------------------------------------

\* The values of TexFormat: RGBA8888, DXT5, DXT3, DXT1, RG88, R8
TexFormat_RGBA8888 == 0
TexFormat_DXT5 == 4
TexFormat_DXT3 == 6
TexFormat_DXT1 == 7
TexFormat_RG88 == 8
TexFormat_R8 == 9
TexFormatValues == { TexFormat_RGBA8888, TexFormat_DXT5, TexFormat_DXT3,
                     TexFormat_DXT1, TexFormat_RG88, TexFormat_R8 }

\* TexFlags.IsGif
TexFlags_IsGif == 4

\* The values of FreeImageFormat run from FIF_UNKNOWN to FIF_RAW
FIF_UNKNOWN == -1
FIF_LBM == 5
FIF_RAW == 34
FreeImageFormatValues == FIF_UNKNOWN..FIF_RAW

\* is_valid_format(enum) for a TexFormat member
IsValidTexFormat(format) ==
    format \in { TexFormat_RGBA8888, TexFormat_DXT5, TexFormat_DXT3,
                 TexFormat_DXT1, TexFormat_RG88, TexFormat_R8 }

\* is_valid_format(enum) for a FreeImageFormat member
IsValidFreeImageFormat(format) == FIF_UNKNOWN <= format /\ format <= FIF_RAW

\* The MipmapFormat member whose value is as far from ImageBMP as the
\* FreeImageFormat value is from FIF_BMP
free_image_format_by_value(free_image_format) ==
    IF free_image_format = FIF_UNKNOWN \/ free_image_format \notin FreeImageFormatValues
    THEN Raised("Exception")
    ELSE Returned(MipmapFormat_ImageBMP + free_image_format)

\* free_image_format_to_mipmap_format: the member of the same name, and an
\* Exception for FIF_UNKNOWN and for anything else. The MipmapFormat values
\* run on from ImageBMP = 1000 and count ImageIFF apart from ImageLBM, which
\* FreeImageFormat does not (FIF_IFF = FIF_LBM = 5).
free_image_format_to_mipmap_format(free_image_format) ==
    IF free_image_format = FIF_UNKNOWN \/ free_image_format \notin FreeImageFormatValues
    THEN Raised("Exception")
    ELSE IF free_image_format <= FIF_LBM
    THEN Returned(MipmapFormat_ImageBMP + free_image_format)
    ELSE Returned(MipmapFormat_ImageBMP + free_image_format + 1)

\* get_format_for_tex: the tag returned, or the Exception raised
get_format_for_tex(image_format, tex_format) ==
    IF image_format # FIF_UNKNOWN
    THEN free_image_format_to_mipmap_format(image_format)
    ELSE CASE tex_format = TexFormat_RGBA8888 -> Returned(MipmapFormat_RGBA8888)
           [] tex_format = TexFormat_DXT5 -> Returned(MipmapFormat_CompressedDXT5)
           [] tex_format = TexFormat_DXT3 -> Returned(MipmapFormat_CompressedDXT3)
           [] tex_format = TexFormat_DXT1 -> Returned(MipmapFormat_CompressedDXT1)
           [] tex_format = TexFormat_R8 -> Returned(MipmapFormat_R8)
           [] tex_format = TexFormat_RG88 -> Returned(MipmapFormat_RG88)
           [] OTHER -> Raised("Exception")

\* struct.unpack("<i", bs): a signed 32-bit integer, low byte first
I32(bs) ==
    bs[1] + 256 * bs[2] + 65536 * bs[3]
      + 16777216 * (IF bs[4] >= 128 THEN bs[4] - 256 ELSE bs[4])

\* read_n_bytes(fd) at pos: the integer and the position after it; struct
\* raises when fewer than 4 bytes are left
ReadInt(stream, pos) ==
    LET bs == Read(stream, pos, 4)
    IN  [err   |-> IF Len(bs) < 4 THEN "struct.error" ELSE "",
         value |-> IF Len(bs) < 4 THEN 0 ELSE I32(bs),
         pos   |-> pos + Len(bs)]

\* read_n_bytes(fd, "<8sx").decode() at pos
MagicSize == 9
ReadMagic(stream, pos) ==
    LET bs == Read(stream, pos, MagicSize)
    IN  IF Len(bs) < MagicSize
        THEN [err |-> "struct.error", value |-> "", pos |-> pos + Len(bs)]
        ELSE IF ~Decodable(SubSeq(bs, 1, 8))
        THEN [err |-> "UnicodeDecodeError", value |-> "", pos |-> pos + MagicSize]
        ELSE [err |-> "", value |-> Decode(SubSeq(bs, 1, 8)), pos |-> pos + MagicSize]

\* ------------------------------------------------------------------------
\* src/wextractor/textures.py
\* ------------------------------------------------------------------------

\* What a read step gives: the error it raised ("" for none), the position of
\* the stream after it, and what it read
Step(err, pos, value) == [err |-> err, pos |-> pos, value |-> value]

\* struct.calcsize(Texture.HEADER_STRUCT)
HeaderSize == 46

\* Texture._read_header
ReadHeader(stream) ==
    LET data   == Read(stream, 0, HeaderSize)
        magic1 == Slice(data, 0, 8)
        magic2 == Slice(data, 9, 17)
        int(k) == I32(Slice(data, 18 + 4 * k, 22 + 4 * k))
    IN  IF Len(data) < HeaderSize THEN Step("struct.error", Len(data), << >>)
        ELSE IF ~Decodable(magic1) \/ ~Decodable(magic2)
        THEN Step("UnicodeDecodeError", HeaderSize, << >>)
        ELSE IF Decode(magic1) # "TEXV0005" \/ Decode(magic2) # "TEXI0001"
        THEN Step("UnknownMagicError", HeaderSize, << >>)
        ELSE IF int(0) \notin TexFormatValues
        THEN Step("ValueError", HeaderSize, << >>)
        ELSE IF ~IsValidTexFormat(int(0))
        THEN Step("InvalidTextureFormat", HeaderSize, << >>)
        ELSE Step("", HeaderSize,
                  [magic1 |-> Decode(magic1), magic2 |-> Decode(magic2),
                   format |-> int(0), flags |-> int(1),
                   textureWidth |-> int(2), textureHeight |-> int(3),
                   imageWidth |-> int(4), imageHeight |-> int(5),
                   unkInt0 |-> int(6)])

\* A shorter read let through
BytesReadWholeOrShort(bytes_read, byte_count) == Len(bytes_read) <= byte_count

\* not (len(bytes_read) != byte_count)
BytesReadWhole(bytes_read, byte_count) == Len(bytes_read) = byte_count

\* TexImage.read_bytes; fd.read of a negative count reads to the end
read_bytes(stream, pos) ==
    LET byte_count == ReadInt(stream, pos)
        bytes_read == IF byte_count.value < 0
                      THEN Slice(stream, byte_count.pos, Len(stream))
                      ELSE Read(stream, byte_count.pos, byte_count.value)
    IN  IF byte_count.err # "" THEN Step(byte_count.err, byte_count.pos, << >>)
        ELSE IF ~BytesReadWhole(bytes_read, byte_count.value)
        THEN Step("ValueError", byte_count.pos + Len(bytes_read), << >>)
        ELSE Step("", byte_count.pos + Len(bytes_read), bytes_read)

\* The first error of steps made one after another
FirstError(steps) ==
    IF \A i \in 1..Len(steps) : steps[i].err = "" THEN ""
    ELSE steps[CHOOSE i \in 1..Len(steps) :
                  steps[i].err # "" /\ \A j \in 1..(i - 1) : steps[j].err = ""].err

\* The position after steps made one after another, up to the first error
LastPos(steps) ==
    IF \A i \in 1..Len(steps) : steps[i].err = "" THEN steps[Len(steps)].pos
    ELSE steps[CHOOSE i \in 1..Len(steps) :
                  steps[i].err # "" /\ \A j \in 1..(i - 1) : steps[j].err = ""].pos

\* TexImage.read_mipmap_v1
read_mipmap_v1(stream, pos) ==
    LET w == ReadInt(stream, pos)
        h == ReadInt(stream, w.pos)
        d == read_bytes(stream, h.pos)
    IN  Step(FirstError(<< w, h, d >>), LastPos(<< w, h, d >>),
             TexMipmap(d.value, w.value, h.value, FALSE, 0, MipmapFormat_Invalid))

\* Any flag but 0 taken as compressed
IsLz4FlagNonzero(flag) == flag # 0

\* read_n_bytes(fd) == 1
IsLz4Flag(flag) == flag = 1

\* TexImage.read_mipmap_v2_and_v3
read_mipmap_v2_and_v3(stream, pos) ==
    LET w == ReadInt(stream, pos)
        h == ReadInt(stream, w.pos)
        z == ReadInt(stream, h.pos)
        c == ReadInt(stream, z.pos)
        d == read_bytes(stream, c.pos)
    IN  Step(FirstError(<< w, h, z, c, d >>), LastPos(<< w, h, z, c, d >>),
             TexMipmap(d.value, w.value, h.value, IsLz4Flag(z.value), c.value,
                       MipmapFormat_Invalid))

\* read_func(self._fd), read_func from TexImage.pick_mipmap_reader
ReadMipmap(stream, pos, version) ==
    IF version = 1 THEN read_mipmap_v1(stream, pos)
    ELSE read_mipmap_v2_and_v3(stream, pos)

\* What the mipmap loop has so far: self.mipmaps, and next to it each of them
\* as decompress_mipmap was given it (as read_func returned it, with
\* mipmap.format set)
Mipmaps(mipmaps, read) == [mipmaps |-> mipmaps, read |-> read]

RECURSIVE ReadMipmaps(_, _, _, _, _, _, _, _)
\* TexImage.read: the mipmap loop from iteration i, so_far the lists so far;
\* reply is what lz4.block.decompress does
ReadMipmaps(stream, pos, i, mipmap_count, version, mipmap_format, reply, so_far) ==
    IF i >= mipmap_count THEN Step("", pos, so_far)
    ELSE Bind(ReadMipmap(stream, pos, version), LAMBDA r :
           IF r.err # "" THEN Step(r.err, r.pos, so_far)
           ELSE Bind([r.value EXCEPT !.format = mipmap_format], LAMBDA given :
                  Bind(decompress_mipmap(given, reply), LAMBDA d :
                       IF d.result.status = "raised"
                       THEN Step(d.result.value, r.pos, so_far)
                       ELSE ReadMipmaps(stream, r.pos, i + 1, mipmap_count, version,
                                        mipmap_format, reply,
                                        Mipmaps(Append(so_far.mipmaps, d.mipmap),
                                                Append(so_far.read, given))))))

\* TexImage.read: the mipmaps of one image
ReadImage(stream, pos, version, image_format, tex_format, reply) ==
    LET mipmap_count  == ReadInt(stream, pos)
        mipmap_format == get_format_for_tex(image_format, tex_format)
    IN  IF mipmap_count.err # ""
        THEN Step(mipmap_count.err, mipmap_count.pos, Mipmaps(<< >>, << >>))
        ELSE IF mipmap_format.status = "raised"
        THEN Step(mipmap_format.value, mipmap_count.pos, Mipmaps(<< >>, << >>))
        ELSE ReadMipmaps(stream, mipmap_count.pos, 0, mipmap_count.value, version,
                         mipmap_format.value, reply, Mipmaps(<< >>, << >>))

\* What the image loop has so far: images_container.images, and next to it
\* the mipmaps of each image as decompress_mipmap was given them
Images(images, read) == [images |-> images, read |-> read]

RECURSIVE ReadImages(_, _, _, _, _, _, _, _, _)
\* Texture._read_image_container: the image loop from iteration i
ReadImages(stream, pos, i, image_count, version, image_format, tex_format, reply, so_far) ==
    IF i >= image_count THEN Step("", pos, so_far)
    ELSE Bind(ReadImage(stream, pos, version, image_format, tex_format, reply),
              LAMBDA r :
                IF r.err # "" THEN Step(r.err, r.pos, so_far)
                ELSE ReadImages(stream, r.pos, i + 1, image_count, version,
                                image_format, tex_format, reply,
                                Images(Append(so_far.images, [mipmaps |-> r.value.mipmaps]),
                                       Append(so_far.read, r.value.read))))

\* int(self.images_container.magic[4:]) of a magic the match has let through
ContainerVersion(magic) ==
    CASE magic = "TEXB0001" -> 1
      [] magic = "TEXB0002" -> 2
      [] magic = "TEXB0003" -> 3

\* A reader that took the format field of every container from TEXB0002 on
HasFormatFieldFrom2(magic) == magic \in {"TEXB0002", "TEXB0003"}

\* match magic: case "TEXB0003" is the only one that reads the format field
HasFormatField(magic) == magic = "TEXB0003"

\* Texture._read_image_container
ReadImageContainer(stream, pos, tex_format, reply) ==
    LET magic       == ReadMagic(stream, pos)
        image_count == ReadInt(stream, magic.pos)
        code        == ReadInt(stream, image_count.pos)
        is3         == HasFormatField(magic.value)
        format      == IF is3 /\ code.value \in FreeImageFormatValues
                       THEN code.value ELSE FIF_UNKNOWN
        start       == IF is3 THEN code.pos ELSE image_count.pos
    IN  IF magic.err # "" THEN Step(magic.err, magic.pos, << >>)
        ELSE IF image_count.err # ""
        THEN Step(image_count.err, image_count.pos, << >>)
        ELSE IF magic.value \notin {"TEXB0001", "TEXB0002", "TEXB0003"}
        THEN Step("UnknownMagicError", image_count.pos, << >>)
        ELSE IF is3 /\ code.err # "" THEN Step(code.err, code.pos, << >>)
        ELSE IF ~IsValidFreeImageFormat(format)
        THEN Step("InvalidTextureFormat", start, << >>)
        ELSE Bind(ReadImages(stream, start, 0, image_count.value,
                             ContainerVersion(magic.value), format, tex_format,
                             reply, Images(<< >>, << >>)),
                  LAMBDA images :
                    IF images.err # "" THEN Step(images.err, images.pos, << >>)
                    ELSE Step("", images.pos,
                              [container |->
                                  [magic |-> magic.value, images |-> images.value.images,
                                   version |-> ContainerVersion(magic.value),
                                   format |-> format],
                               read |-> images.value.read]))

\* A flag test that looks at the lowest bit
is_gif_lowest_bit(flags) == BitAnd(flags, 1) = 1

\* Texture.is_gif: has_flag(TexFlags.IsGif)
is_gif(flags) == BitAnd(flags, TexFlags_IsGif) = TexFlags_IsGif

RECURSIVE Dyadic(_, _)
\* The number num * 2^exp, written with num odd (0 as 0 * 2^0), so that equal
\* numbers are equal records whether they were read as "i" or as "f"
Dyadic(num, exp) ==
    IF num = 0 THEN [kind |-> "finite", num |-> 0, exp |-> 0]
    ELSE IF num % 2 = 0 THEN Dyadic(num \div 2, exp + 1)
    ELSE [kind |-> "finite", num |-> num, exp |-> exp]

\* struct.unpack("<f", bs): an IEEE 754 single, low byte first
F32(bs) ==
    LET sign     == bs[4] \div 128
        exponent == (bs[4] % 128) * 2 + bs[3] \div 128
        fraction == (bs[3] % 128) * 65536 + bs[2] * 256 + bs[1]
        signed(n) == IF sign = 1 THEN 0 - n ELSE n
    IN  IF exponent = 255
        THEN [kind |-> IF fraction = 0 THEN "inf" ELSE "nan", num |-> signed(1), exp |-> 0]
        ELSE IF exponent = 0 THEN Dyadic(signed(fraction), 0 - 149)
        ELSE Dyadic(signed(8388608 + fraction), exponent - 150)

\* int(v) of a frame field: rounds towards zero; OverflowError for an
\* infinity and ValueError for a NaN
IntOf(v) ==
    IF v.kind = "inf" THEN Step("OverflowError", 0, 0)
    ELSE IF v.kind = "nan" THEN Step("ValueError", 0, 0)
    ELSE IF v.exp >= 0 THEN Step("", 0, v.num * (2 ^ v.exp))
    ELSE IF 0 - v.exp > 24 THEN Step("", 0, 0)
    ELSE IF v.num >= 0 THEN Step("", 0, v.num \div (2 ^ (0 - v.exp)))
    ELSE Step("", 0, 0 - ((0 - v.num) \div (2 ^ (0 - v.exp))))

\* struct.calcsize("<if6i") = struct.calcsize("<i7f")
FrameSize == 32

\* TexFrameInfo(*read_n_bytes(fd, fmt)): fmt "<if6i" when all_float is FALSE,
\* "<i7f" when it is TRUE
ReadFrame(stream, pos, all_float) ==
    LET bs == Read(stream, pos, FrameSize)
        word(k) == SubSeq(bs, 4 * k + 1, 4 * k + 4)
        int(k) == Dyadic(I32(word(k)), 0)
        num(k) == IF all_float THEN F32(word(k)) ELSE int(k)
    IN  IF Len(bs) < FrameSize THEN Step("struct.error", pos + Len(bs), << >>)
        ELSE Step("", pos + FrameSize,
                  [image_id |-> int(0), frame_time |-> F32(word(1)),
                   x |-> num(2), y |-> num(3), width |-> num(4),
                   width_y |-> num(5), height_x |-> num(6), height |-> num(7)])

RECURSIVE ReadFrames(_, _, _, _, _, _)
\* TexFrameInfoContainer.read: a frame loop from iteration i
ReadFrames(stream, pos, i, frames_count, all_float, frames) ==
    IF i >= frames_count THEN Step("", pos, frames)
    ELSE Bind(ReadFrame(stream, pos, all_float), LAMBDA r :
           IF r.err # "" THEN Step(r.err, r.pos, frames)
           ELSE ReadFrames(stream, r.pos, i + 1, frames_count, all_float,
                           Append(frames, r.value)))

\* TexFrameInfoContainer.read
ReadFrameInfo(stream, pos) ==
    LET magic        == ReadMagic(stream, pos)
        frames_count == ReadInt(stream, magic.pos)
        is3          == magic.value = "TEXS0003"
        gw           == ReadInt(stream, frames_count.pos)
        gh           == ReadInt(stream, gw.pos)
        start        == IF is3 THEN gh.pos ELSE frames_count.pos
        gif_width    == IF is3 THEN gw.value ELSE 0
        gif_height   == IF is3 THEN gh.value ELSE 0
        derive       == gif_width = 0 \/ gif_height = 0
    IN  IF magic.err # "" THEN Step(magic.err, magic.pos, << >>)
        ELSE IF frames_count.err # ""
        THEN Step(frames_count.err, frames_count.pos, << >>)
        ELSE IF magic.value \notin {"TEXS0001", "TEXS0002", "TEXS0003"}
        THEN Step("UnknownMagicError", frames_count.pos, << >>)
        ELSE IF is3 /\ (gw.err # "" \/ gh.err # "")
        THEN Step("struct.error", gh.pos, << >>)
        ELSE Bind(ReadFrames(stream, start, 0, frames_count.value,
                             magic.value # "TEXS0001", << >>),
                  LAMBDA frames :
                    LET fw == IntOf(frames.value[1].width)
                        fh == IntOf(frames.value[1].height)
                    IN  IF frames.err # "" THEN Step(frames.err, frames.pos, << >>)
                        ELSE IF derive /\ frames.value = << >>
                        THEN Step("IndexError", frames.pos, << >>)
                        ELSE IF derive /\ fw.err # "" THEN Step(fw.err, frames.pos, << >>)
                        ELSE IF derive /\ fh.err # "" THEN Step(fh.err, frames.pos, << >>)
                        ELSE Step("", frames.pos,
                                  [magic |-> magic.value, frames |-> frames.value,
                                   gif_width |-> IF derive THEN fw.value ELSE gif_width,
                                   gif_height |-> IF derive THEN fh.value
                                                  ELSE gif_height]))

\* ------------------------------------------------------------------------
\* src/textures.py: TexReader, TexImageReader, TexFrameInfoContainer. Its
\* read_n_bytes and is_valid_format are src/extensions.py's readNBytes and
\* isValidFormat, and its record readers are those of the packaged module.
\* ------------------------------------------------------------------------

\* self._fd.read(8).decode() at pos: fd.read gives what is left, so a short
\* token is no error here
LegacyReadToken(stream, pos) ==
    LET bs == Read(stream, pos, 8)
    IN  IF ~Decodable(bs) THEN Step("UnicodeDecodeError", pos + Len(bs), "")
        ELSE Step("", pos + Len(bs), Decode(bs))

\* self._fd.read(1) at pos: the position after it
SkipPad(stream, pos) == pos + Len(Read(stream, pos, 1))

\* TexReader._read_magic: the magic1 and magic2 setters raise ValueError
LegacyReadMagic(stream) ==
    LET magic1 == LegacyReadToken(stream, 0)
        magic2 == LegacyReadToken(stream, SkipPad(stream, magic1.pos))
    IN  IF magic1.err # "" THEN Step(magic1.err, magic1.pos, << >>)
        ELSE IF magic1.value # "TEXV0005" THEN Step("ValueError", magic1.pos, << >>)
        ELSE IF magic2.err # "" THEN Step(magic2.err, magic2.pos, << >>)
        ELSE IF magic2.value # "TEXI0001" THEN Step("ValueError", magic2.pos, << >>)
        ELSE Step("", SkipPad(stream, magic2.pos),
                  [magic1 |-> magic1.value, magic2 |-> magic2.value])

\* TexReader._read_header
LegacyReadHeader(stream, pos) ==
    LET Format        == ReadInt(stream, pos)
        Flags         == ReadInt(stream, Format.pos)
        TextureWidth  == ReadInt(stream, Flags.pos)
        TextureHeight == ReadInt(stream, TextureWidth.pos)
        ImageWidth    == ReadInt(stream, TextureHeight.pos)
        ImageHeight   == ReadInt(stream, ImageWidth.pos)
        UnkInt0       == ReadInt(stream, ImageHeight.pos)
        rest          == << Flags, TextureWidth, TextureHeight, ImageWidth,
                            ImageHeight, UnkInt0 >>
    IN  IF Format.err # "" THEN Step(Format.err, Format.pos, << >>)
        ELSE IF Format.value \notin TexFormatValues
        THEN Step("ValueError", Format.pos, << >>)
        ELSE IF FirstError(rest) # "" THEN Step(FirstError(rest), LastPos(rest), << >>)
        ELSE IF ~IsValidTexFormat(Format.value)
        THEN Step("InvalidTextureFormat", UnkInt0.pos, << >>)
        ELSE Step("", UnkInt0.pos,
                  [Format |-> Format.value, Flags |-> Flags.value,
                   TextureWidth |-> TextureWidth.value,
                   TextureHeight |-> TextureHeight.value,
                   ImageWidth |-> ImageWidth.value, ImageHeight |-> ImageHeight.value,
                   UnkInt0 |-> UnkInt0.value])

RECURSIVE LegacyReadMipmaps(_, _, _, _, _, _, _, _)
\* TexImageReader.read: the mipmap loop from iteration i
LegacyReadMipmaps(stream, pos, i, mipmapCount, version, mipmapFormat, reply, so_far) ==
    IF i >= mipmapCount THEN Step("", pos, so_far)
    ELSE Bind(ReadMipmap(stream, pos, version), LAMBDA r :
           IF r.err # "" THEN Step(r.err, r.pos, so_far)
           ELSE Bind(decompressMipmap([r.value EXCEPT !.format = mipmapFormat], reply),
                     LAMBDA d :
                       IF d.result.status = "raised"
                       THEN Step(d.result.value, r.pos, so_far)
                       ELSE LegacyReadMipmaps(stream, r.pos, i + 1, mipmapCount, version,
                                              mipmapFormat, reply,
                                              Append(so_far, d.mipmap))))

\* TexImageReader.read
LegacyReadImage(stream, pos, version, ImageFormat, texFormat, reply) ==
    LET mipmapCount  == ReadInt(stream, pos)
        mipmapFormat == get_format_for_tex(ImageFormat, texFormat)
    IN  IF mipmapCount.err # "" THEN Step(mipmapCount.err, mipmapCount.pos, << >>)
        ELSE IF mipmapFormat.status = "raised"
        THEN Step(mipmapFormat.value, mipmapCount.pos, << >>)
        ELSE LegacyReadMipmaps(stream, mipmapCount.pos, 0, mipmapCount.value, version,
                               mipmapFormat.value, reply, << >>)

RECURSIVE LegacyReadImages(_, _, _, _, _, _, _, _, _)
\* TexReader._read_image_container: the image loop from iteration i
LegacyReadImages(stream, pos, i, image_count, version, ImageFormat, texFormat, reply, so_far) ==
    IF i >= image_count THEN Step("", pos, so_far)
    ELSE Bind(LegacyReadImage(stream, pos, version, ImageFormat, texFormat, reply),
              LAMBDA r :
                IF r.err # "" THEN Step(r.err, r.pos, so_far)
                ELSE LegacyReadImages(stream, r.pos, i + 1, image_count, version,
                                      ImageFormat, texFormat, reply,
                                      Append(so_far, [Mipmaps |-> r.value])))

\* TexReader._read_image_container: enums.FreeImageFormat(read_n_bytes(...))
\* is not caught here, so a code that is no member raises ValueError. The
\* value holds the container and where its first image was read from.
LegacyReadImageContainer(stream, pos, texFormat, reply) ==
    LET Magic       == LegacyReadToken(stream, pos)
        image_count == ReadInt(stream, SkipPad(stream, Magic.pos))
        code        == ReadInt(stream, image_count.pos)
        is3         == HasFormatField(Magic.value)
        ImageFormat == IF is3 THEN code.value ELSE FIF_UNKNOWN
        start       == IF is3 THEN code.pos ELSE image_count.pos
    IN  IF Magic.err # "" THEN Step(Magic.err, Magic.pos, << >>)
        ELSE IF image_count.err # ""
        THEN Step(image_count.err, image_count.pos, << >>)
        ELSE IF Magic.value \notin {"TEXB0001", "TEXB0002", "TEXB0003"}
        THEN Step("UnknownMagicError", image_count.pos, << >>)
        ELSE IF is3 /\ code.err # "" THEN Step(code.err, code.pos, << >>)
        ELSE IF is3 /\ code.value \notin FreeImageFormatValues
        THEN Step("ValueError", code.pos, << >>)
        ELSE IF ~IsValidFreeImageFormat(ImageFormat)
        THEN Step("InvalidTextureFormat", start, << >>)
        ELSE Bind(LegacyReadImages(stream, start, 0, image_count.value,
                                   ContainerVersion(Magic.value), ImageFormat,
                                   texFormat, reply, << >>),
                  LAMBDA images :
                    IF images.err # "" THEN Step(images.err, images.pos, << >>)
                    ELSE Step("", images.pos,
                              [container |->
                                  [Magic |-> Magic.value, Images |-> images.value,
                                   ImageContainerVersion |-> ContainerVersion(Magic.value),
                                   ImageFormat |-> ImageFormat],
                               images_at |-> start]))

\* TexFrameInfo(ImageId=read_n_bytes(fd), FrameTime=struct.unpack("<i", ...),
\* ...): eight integers read one after another
LegacyReadFrame(stream, pos) ==
    LET RECURSIVE fields(_, _, _)
        fields(at, k, acc) ==
            IF k = 8 THEN Step("", at, acc)
            ELSE LET v == ReadInt(stream, at)
                 IN  IF v.err # "" THEN Step(v.err, v.pos, acc)
                     ELSE fields(v.pos, k + 1, Append(acc, Dyadic(v.value, 0)))
        r == fields(pos, 0, << >>)
    IN  IF r.err # "" THEN Step(r.err, r.pos, << >>)
        ELSE Step("", r.pos,
                  [ImageId |-> r.value[1], FrameTime |-> r.value[2], X |-> r.value[3],
                   Y |-> r.value[4], Width |-> r.value[5], WidthY |-> r.value[6],
                   HeightX |-> r.value[7], Height |-> r.value[8]])

RECURSIVE LegacyReadFrames(_, _, _, _, _)
\* TexFrameInfoContainer.read: a frame loop from iteration i
LegacyReadFrames(stream, pos, i, frameConut, Frames) ==
    IF i >= frameConut THEN Step("", pos, Frames)
    ELSE Bind(LegacyReadFrame(stream, pos), LAMBDA r :
           IF r.err # "" THEN Step(r.err, r.pos, Frames)
           ELSE LegacyReadFrames(stream, r.pos, i + 1, frameConut,
                                 Append(Frames, r.value)))

\* The frames the match of TexFrameInfoContainer.read reads for a frame count:
\* case "TEXS0002" is "pass"
LegacyFramesToRead(Magic, frameConut) == IF Magic = "TEXS0002" THEN 0 ELSE frameConut

\* TexFrameInfoContainer.read of src/textures.py
LegacyReadFrameInfo(stream, pos) ==
    LET Magic      == LegacyReadToken(stream, pos)
        frameConut == ReadInt(stream, SkipPad(stream, Magic.pos))
        is3        == Magic.value = "TEXS0003"
        gw         == ReadInt(stream, frameConut.pos)
        gh         == ReadInt(stream, gw.pos)
        start      == IF is3 THEN gh.pos ELSE frameConut.pos
        GifWidth   == IF is3 THEN gw.value ELSE 0
        GifHeight  == IF is3 THEN gh.value ELSE 0
        derive     == GifWidth = 0 \/ GifHeight = 0
    IN  IF Magic.err # "" THEN Step(Magic.err, Magic.pos, << >>)
        ELSE IF frameConut.err # "" THEN Step(frameConut.err, frameConut.pos, << >>)
        ELSE IF Magic.value \notin {"TEXS0001", "TEXS0002", "TEXS0003"}
        THEN Step("UnknownMagicError", frameConut.pos, << >>)
        ELSE IF is3 /\ gw.err # "" THEN Step(gw.err, gw.pos, << >>)
        ELSE IF is3 /\ gh.err # "" THEN Step(gh.err, gh.pos, << >>)
        ELSE Bind(LegacyReadFrames(stream, start, 0,
                                   LegacyFramesToRead(Magic.value, frameConut.value),
                                   << >>),
                  LAMBDA frames :
                    IF frames.err # "" THEN Step(frames.err, frames.pos, << >>)
                    ELSE IF derive /\ frames.value = << >>
                    THEN Step("IndexError", frames.pos, << >>)
                    ELSE Step("", frames.pos,
                              [Magic |-> Magic.value, Frames |-> frames.value,
                               GifWidth |-> IF derive
                                            THEN IntOf(frames.value[1].Width).value
                                            ELSE GifWidth,
                               GifHeight |-> IF derive
                                             THEN IntOf(frames.value[1].Height).value
                                             ELSE GifHeight]))

\* ------------------------------------------------------------------------
\* State
\* ------------------------------------------------------------------------

VARIABLES
    \* one block through both block decoders
    block_data,     \* the block's bytes (8 for DXT1, 16 for DXT3 and DXT5)
    format_type,    \* the variant, a DXTFlags value
    palette,        \* src/wextractor/DXT.py: the colour palette
    alpha_palette,  \* src/wextractor/DXT.py: the DXT5 alpha palette
    indices,        \* src/wextractor/DXT.py: the 16 colour indices
    alpha_indices,  \* src/wextractor/DXT.py: the 16 DXT5 alpha indices
    tile,           \* src/wextractor/DXT.py: the 16 values handed to pixels
    codes,          \* src/DXT.py: decompressColor's codes
    alpha_codes,    \* src/DXT.py: decompressAlphaDxt5's codes
    l_indices,      \* src/DXT.py: decompressColor's indices
    l_alpha_indices, \* src/DXT.py: decompressAlphaDxt5's indices
    tileRGBA,       \* src/DXT.py: the 64-byte tile decompress fills
    buffer_alpha,   \* src/DXTDecompress.py: getAlpha's alpha of each alpha_code
    blk_pc,
    \* one image through decompress_image and then through decompressImage
    width, height,
    data,           \* the compressed bytes
    pixels,         \* src/wextractor/DXT.py: the numpy array
    block_idx,
    stored,         \* src/wextractor/DXT.py: the (row, column) of every store so far
    result,         \* src/wextractor/DXT.py: the bytes returned, or the error raised
    rgba,           \* src/DXT.py: the output bytearray
    targetRGBA,     \* src/DXT.py: the tile, allocated once per image
    sourceBlock_pos,
    tile_no,        \* src/DXT.py: how many (y, x) iterations are done
    copied,         \* src/DXT.py: the (sx, sy) of every copy so far
    lresult,        \* src/DXT.py: the bytes returned, or the error raised
    img_pc,
    \* one package file through PKGV0001
    archive,        \* the bytes of the file
    table_end,      \* where the file table of the archive ends, as it was written
    fd_pos,         \* src/packages.py: the position of self._fd
    fd_closed,
    filecount,
    files,          \* src/packages.py: self.files, records of name, offset, size
    ds_ptr,         \* src/packages.py: self._ds_ptr
    req,            \* the index in files of the entry get_file was last given
    pkg_result,     \* what the last call returned or raised
    pkg_pc,
    \* one mipmap through decompress_mipmap, again and again
    mipmap,         \* the TexMipmap: data, width, height, is_lz4_compressed,
                    \* decompressed_bytes_count, format
    lz4_reply,      \* what lz4.block.decompress does with the mipmap's stored bytes
    mip_op,         \* the operation called last
    mip_entry,      \* the mipmap as the last call found it
    mip_result,     \* what the last call returned or raised
    mip_first,      \* the mipmap as the first call that returned left it
    mip_calls,      \* how many decompress_mipmap calls were made
    mip_variant,    \* the variant the last call ran the block decoder with, 0 for none
    \* one texture stream through Texture(file)
    tex_stream,     \* the bytes of the stream
    tex_lz4,        \* what lz4.block.decompress does with a mipmap's stored bytes
    tex_pos,        \* src/wextractor/textures.py: the position of self._fd
    header,         \* the fields _read_header sets
    images_container,
    mipmaps_read,   \* each stored mipmap as decompress_mipmap was given it, by image
    frame_info_container,
    frames_at,      \* where the read of the frame info began
    tex_redone,     \* decompress_mipmap calls made on the returned texture's mipmaps
    tex_result,     \* what Texture(file) raised, or that it returned
    tex_pc,
    \* the same stream through TexReader(file) of src/textures.py
    texture,        \* self.texture: magic1, magic2, header, images_container,
                    \* frame_info_container
    reader_pos,     \* the position of self._fd
    images_at,      \* where the read of the first image began
    reader_frames_at, \* where the read of the frame info began
    reader_result,  \* what TexReader(file) raised, or that it returned
    reader_pc

blkVars == << block_data, format_type, palette, alpha_palette, indices,
              alpha_indices, tile, codes, alpha_codes, l_indices, l_alpha_indices,
              tileRGBA, buffer_alpha, blk_pc >>

imgVars == << width, height, data, pixels, block_idx, stored, result, rgba,
              targetRGBA, sourceBlock_pos, tile_no, copied, lresult, img_pc >>

pkgVars == << archive, table_end, fd_pos, fd_closed, filecount, files, ds_ptr,
              req, pkg_result, pkg_pc >>

mipVars == << mipmap, lz4_reply, mip_op, mip_entry, mip_result, mip_first,
              mip_calls, mip_variant >>

\* The state of the TexReader of src/textures.py
readerVars == << texture, reader_pos, images_at, reader_frames_at, reader_result,
                reader_pc >>

texVars == << tex_stream, tex_lz4, tex_pos, header, images_container, mipmaps_read,
              frame_info_container, frames_at, tex_redone, tex_result, tex_pc,
              texture, reader_pos, images_at, reader_frames_at, reader_result,
              reader_pc >>

vars == << blkVars, imgVars, pkgVars, mipVars, texVars >>

\* What the actions of one component leave alone
besidesBlk == << imgVars, pkgVars, mipVars, texVars >>
besidesImg == << blkVars, pkgVars, mipVars, texVars >>
besidesPkg == << blkVars, imgVars, mipVars, texVars >>
besidesMip == << blkVars, imgVars, pkgVars, texVars >>
besidesTex == << blkVars, imgVars, pkgVars, mipVars >>

\* ------------------------------------------------------------------------
\* One block through both block decoders
\* ------------------------------------------------------------------------

\* Packed RGB565 endpoints tried: the extremes, single channels, values next
\* to each other and pairs whose order as packed values differs from the
\* order of their channels (0x0800 > 0x07FF)
EndpointVals == {0, 1, 31, 32, 2016, 2047, 2048, 33808, 63488, 65535}

\* The four colour index bytes tried
IndexSamples == { << 0, 0, 0, 0 >>, << 228, 27, 177, 78 >> }

\* The eight alpha bytes tried (DXT3: sixteen nibbles; DXT5: two endpoints and
\* six index bytes)
AlphaSamples == { << 240, 33, 67, 101, 135, 169, 203, 237 >>,
                  << 32, 200, 136, 198, 250, 83, 151, 31 >> }

\* A value as two bytes, low byte first
LE16(v) == << v % 256, v \div 256 >>

ColourBlock(c0, c1, idx) == LE16(c0) \o LE16(c1) \o idx

BlkIdle ==
    /\ block_data = << >>
    /\ palette = << >>
    /\ alpha_palette = << >>
    /\ indices = << >>
    /\ alpha_indices = << >>
    /\ tile = << >>
    /\ codes = << >>
    /\ alpha_codes = << >>
    /\ l_indices = << >>
    /\ l_alpha_indices = << >>
    /\ buffer_alpha = << >>
    /\ tileRGBA = << >>
    /\ blk_pc = "idle"

ImgIdle ==
    /\ width = 0
    /\ height = 0
    /\ data = << >>
    /\ pixels = << >>
    /\ block_idx = 0
    /\ stored = {}
    /\ result = NoResult
    /\ rgba = << >>
    /\ targetRGBA = << >>
    /\ sourceBlock_pos = 0
    /\ tile_no = 0
    /\ copied = {}
    /\ lresult = NoResult
    /\ img_pc = "idle"

PkgIdle ==
    /\ archive = << >>
    /\ table_end = 0
    /\ fd_pos = 0
    /\ fd_closed = FALSE
    /\ filecount = 0
    /\ files = << >>
    /\ ds_ptr = 0
    /\ req = 0
    /\ pkg_result = NoResult
    /\ pkg_pc = "idle"

MipIdle ==
    /\ mipmap = TexMipmap(<< >>, 0, 0, FALSE, 0, MipmapFormat_Invalid)
    /\ lz4_reply = NoResult
    /\ mip_op = "none"
    /\ mip_entry = TexMipmap(<< >>, 0, 0, FALSE, 0, MipmapFormat_Invalid)
    /\ mip_result = NoResult
    /\ mip_first = NoResult
    /\ mip_calls = 0
    /\ mip_variant = 0

\* Texture() of src/textures.py, None written << >>, and the reader before
\* its first read
NoTexture ==
    [magic1 |-> "", magic2 |-> "", header |-> << >>, images_container |-> << >>,
     frame_info_container |-> << >>]

ReaderNew ==
    /\ texture = NoTexture
    /\ reader_pos = 0
    /\ images_at = 0
    /\ reader_frames_at = 0
    /\ reader_result = NoResult
    /\ reader_pc = "new"

\* The header fields before _read_header has set them
NoHeader ==
    [magic1 |-> "", magic2 |-> "", format |-> 0, flags |-> 0, textureWidth |-> 0,
     textureHeight |-> 0, imageWidth |-> 0, imageHeight |-> 0, unkInt0 |-> 0]

TexIdle ==
    /\ tex_stream = << >>
    /\ tex_lz4 = NoResult
    /\ tex_pos = 0
    /\ header = NoHeader
    /\ images_container = << >>
    /\ mipmaps_read = << >>
    /\ frame_info_container = << >>
    /\ frames_at = 0
    /\ tex_redone = 0
    /\ tex_result = NoResult
    /\ tex_pc = "idle"
    /\ ReaderNew

\* Blocks over the sampled endpoints, for each variant
InitColourBlocks ==
    /\ format_type \in DXTVariants
    /\ \E c0 \in EndpointVals, c1 \in EndpointVals, idx \in IndexSamples :
         IF format_type = DXT1
         THEN block_data = ColourBlock(c0, c1, idx)
         ELSE \E al \in AlphaSamples : block_data = al \o ColourBlock(c0, c1, idx)

\* DXT5 blocks over every pair of alpha endpoints
InitAlphaBlocks ==
    /\ format_type = DXT5
    /\ \E a0 \in 0..255, a1 \in 0..255 :
         block_data = << a0, a1, 136, 198, 250, 83, 151, 31 >>
                        \o ColourBlock(63488, 31, << 228, 27, 177, 78 >>)

InitBlockResults ==
    /\ palette = << >>
    /\ alpha_palette = << >>
    /\ indices = << >>
    /\ alpha_indices = << >>
    /\ tile = << >>
    /\ codes = << >>
    /\ alpha_codes = << >>
    /\ l_indices = << >>
    /\ l_alpha_indices = << >>
    /\ buffer_alpha = << >>
    /\ tileRGBA = << >>
    /\ blk_pc = "input"

\* _decompress_dxt1_block, _decompress_dxt3_block, _decompress_dxt5_block:
\* the palettes and the 16 tile values of the block
DecodeBlock ==
    /\ blk_pc = "input"
    /\ palette' = IF format_type = DXT1 THEN Dxt1Palette(block_data)
                  ELSE FourColorPalette(Slice(block_data, 8, 16))
    /\ alpha_palette' = IF format_type = DXT5 THEN Dxt5AlphaPalette(block_data)
                        ELSE << >>
    /\ indices' = ColorIndices(IF format_type = DXT1 THEN block_data
                               ELSE Slice(block_data, 8, 16))
    /\ alpha_indices' = IF format_type = DXT5 THEN Dxt5AlphaIndices(block_data)
                        ELSE << >>
    /\ tile' = Tile(block_data, format_type)
    /\ blk_pc' = "decoded"
    /\ UNCHANGED << block_data, format_type, codes, alpha_codes, l_indices,
                    l_alpha_indices, tileRGBA, buffer_alpha >>
    /\ UNCHANGED besidesBlk

\* decompress of src/DXT.py on the same block, into a fresh 64-byte tile
LegacyDecodeBlock ==
    /\ blk_pc = "decoded"
    /\ codes' = DecompressColorFull([q \in 0..63 |-> 0], block_data,
                                    IF format_type = DXT1 THEN 0 ELSE 8,
                                    format_type = DXT1).codes
    /\ alpha_codes' = IF format_type = DXT5 THEN LegacyAlphaCodes(block_data, 0)
                      ELSE << >>
    /\ l_indices' = LegacyColourIndices(block_data, IF format_type = DXT1 THEN 0 ELSE 8)
    /\ l_alpha_indices' = IF format_type = DXT5 THEN LegacyAlphaIndices(block_data, 0)
                          ELSE << >>
    /\ tileRGBA' = decompress([q \in 0..63 |-> 0], block_data, 0, format_type)
    /\ blk_pc' = "done"
    /\ UNCHANGED << block_data, format_type, palette, alpha_palette, indices,
                    alpha_indices, tile, buffer_alpha >>
    /\ UNCHANGED besidesBlk

BlockNext == DecodeBlock \/ LegacyDecodeBlock

\* Blocks with sampled colour endpoints, all three variants
InitBlock ==
    InitColourBlocks /\ InitBlockResults /\ ImgIdle /\ PkgIdle /\ MipIdle /\ TexIdle
SpecBlock == InitBlock /\ [][BlockNext]_vars

\* _decompress_dxt5_block, "Create alpha palette"
BuildAlphaPalette ==
    /\ blk_pc = "input"
    /\ alpha_palette' = Dxt5AlphaPalette(block_data)
    /\ blk_pc' = "decoded"
    /\ UNCHANGED << block_data, format_type, palette, indices, alpha_indices, tile,
                    codes, alpha_codes, l_indices, l_alpha_indices, tileRGBA,
                    buffer_alpha >>
    /\ UNCHANGED besidesBlk

\* decompressAlphaDxt5, "compare the values to build the codebook"
BuildAlphaCodes ==
    /\ blk_pc = "decoded"
    /\ alpha_codes' = LegacyAlphaCodes(block_data, 0)
    /\ blk_pc' = "done"
    /\ UNCHANGED << block_data, format_type, palette, alpha_palette, indices,
                    alpha_indices, tile, codes, l_indices, l_alpha_indices, tileRGBA,
                    buffer_alpha >>
    /\ UNCHANGED besidesBlk

\* DXTBuffer.getAlpha with the block's a0 and a1, for each alpha_code
BuildBufferAlphas ==
    /\ blk_pc = "done"
    /\ buffer_alpha' = [alpha_code \in 0..7 |->
                           getAlphaValue(alpha_code, At(block_data, 0), At(block_data, 1))]
    /\ blk_pc' = "buffered"
    /\ UNCHANGED << block_data, format_type, palette, alpha_palette, indices,
                    alpha_indices, tile, codes, alpha_codes, l_indices,
                    l_alpha_indices, tileRGBA >>
    /\ UNCHANGED besidesBlk

AlphaNext == BuildAlphaPalette \/ BuildAlphaCodes \/ BuildBufferAlphas

\* DXT5 blocks with every pair of alpha endpoints, through the two codebooks
InitAlpha ==
    InitAlphaBlocks /\ InitBlockResults /\ ImgIdle /\ PkgIdle /\ MipIdle /\ TexIdle
SpecAlpha == InitAlpha /\ [][AlphaNext]_vars

\* ------------------------------------------------------------------------
\* One image through decompress_image (src/wextractor/DXT.py) and then
\* through decompressImage (src/DXT.py)
\* ------------------------------------------------------------------------

\* The largest width and height tried
MaxDim == 5

\* The largest number of whole blocks in data
MaxBlocks == 4

\* The lengths of an incomplete last block tried
TrailLengths == {0, 3}

\* The blocks data is made of: the all-zero block and two blocks with
\* different endpoints, indices and alpha bytes
BlockSample(variant, k) ==
    LET colour == CASE k = 0 -> << 0, 0, 0, 0, 0, 0, 0, 0 >>
                    [] k = 1 -> ColourBlock(63488, 31, << 228, 27, 177, 78 >>)
                    [] k = 2 -> ColourBlock(31, 2016, << 27, 228, 78, 177 >>)
        alpha  == CASE k = 0 -> << 0, 0, 0, 0, 0, 0, 0, 0 >>
                    [] k = 1 -> << 240, 33, 67, 101, 135, 169, 203, 237 >>
                    [] k = 2 -> << 32, 200, 136, 198, 250, 83, 151, 31 >>
    IN  IF variant = DXT1 THEN colour ELSE alpha \o colour

RECURSIVE BlockRun(_, _, _)
\* n blocks, the samples in turn from sample number first
BlockRun(variant, first, n) ==
    IF n = 0 THEN << >>
    ELSE BlockSample(variant, first % 3) \o BlockRun(variant, first + 1, n - 1)

InitImage ==
    /\ width \in 1..MaxDim
    /\ height \in 1..MaxDim
    /\ format_type \in DXTVariants
    /\ \E n \in 0..MaxBlocks, first \in 0..2, trail \in TrailLengths :
         data = BlockRun(format_type, first, n)
                  \o SubSeq(BlockSample(format_type, 1), 1, trail)
    /\ pixels = << >>
    /\ block_idx = 0
    /\ stored = {}
    /\ result = NoResult
    /\ rgba = << >>
    /\ targetRGBA = << >>
    /\ sourceBlock_pos = 0
    /\ tile_no = 0
    /\ copied = {}
    /\ lresult = NoResult
    /\ img_pc = "call"
    /\ BlkIdle
    /\ PkgIdle
    /\ MipIdle
    /\ TexIdle

\* decompress_image up to the loop: the size check and the allocation
StartDecompressImage ==
    /\ img_pc = "call"
    /\ IF format_type \notin DXTVariants
       THEN /\ result' = Raised("ValueError")
            /\ img_pc' = "raised"
            /\ UNCHANGED pixels
       ELSE IF Len(data) < ExpectedSize(width, height, format_type)
       THEN /\ result' = Raised("ValueError")
            /\ img_pc' = "raised"
            /\ UNCHANGED pixels
       ELSE /\ pixels' = ZeroPixels(width, height, Channels(format_type))
            /\ img_pc' = "blocks"
            /\ UNCHANGED result
    /\ UNCHANGED << width, height, data, format_type, block_idx, stored, rgba,
                    targetRGBA, sourceBlock_pos, tile_no, copied, lresult >>
    /\ UNCHANGED besidesImg

\* decompress_image: one iteration of "for by ... for bx ..."
DecompressBlock ==
    /\ img_pc = "blocks"
    /\ block_idx < BlocksAcross(width) * BlocksAcross(height)
    /\ LET bx == block_idx % BlocksAcross(width)
           by == block_idx \div BlocksAcross(width)
           offset == block_idx * BlockSize(format_type)
           blk == Slice(data, offset, offset + BlockSize(format_type))
           x == bx * 4
           y == by * 4
       IN  IF FillOutside(x, y, width, height) # {}
           THEN /\ result' = Raised("IndexError")
                /\ img_pc' = "raised"
                /\ stored' = stored \cup
                       {StoreTarget(x, y, p) : p \in StoredPositions(x, y, width, height)}
                /\ UNCHANGED << pixels, block_idx >>
           ELSE /\ pixels' = FillPixels(pixels, blk, format_type, x, y, width, height)
                /\ stored' = stored \cup
                       {StoreTarget(x, y, p) : p \in StoredPositions(x, y, width, height)}
                /\ block_idx' = block_idx + 1
                /\ UNCHANGED << result, img_pc >>
    /\ UNCHANGED << width, height, data, format_type, rgba, targetRGBA,
                    sourceBlock_pos, tile_no, copied, lresult >>
    /\ UNCHANGED besidesImg

\* decompress_image: the return after the loop
ReturnPixels ==
    /\ img_pc = "blocks"
    /\ block_idx = BlocksAcross(width) * BlocksAcross(height)
    /\ result' = Returned(ToBytes(pixels, width, height, Channels(format_type)))
    /\ img_pc' = "returned"
    /\ UNCHANGED << width, height, data, format_type, pixels, block_idx, stored,
                    rgba, targetRGBA, sourceBlock_pos, tile_no, copied, lresult >>
    /\ UNCHANGED besidesImg

\* decompressImage up to the loop, on the same arguments
LegacyStart ==
    /\ img_pc \in {"returned", "raised"}
    /\ rgba' = [q \in 0..(width * height * 4 - 1) |-> 0]
    /\ targetRGBA' = [q \in 0..63 |-> 0]
    /\ sourceBlock_pos' = 0
    /\ tile_no' = 0
    /\ img_pc' = "l_blocks"
    /\ UNCHANGED << width, height, data, format_type, pixels, block_idx, stored,
                    result, copied, lresult >>
    /\ UNCHANGED besidesImg

\* decompressImage: one iteration of "for y ... for x ..."
LegacyBlock ==
    /\ img_pc = "l_blocks"
    /\ tile_no < BlocksAcross(width) * BlocksAcross(height)
    /\ LET x == 4 * (tile_no % BlocksAcross(width))
           y == 4 * (tile_no \div BlocksAcross(width))
       IN  IF Len(data) = sourceBlock_pos
           THEN /\ tile_no' = tile_no + 1
                /\ UNCHANGED << rgba, targetRGBA, sourceBlock_pos, copied, lresult,
                                img_pc >>
           ELSE IF sourceBlock_pos + LegacyLastRead(format_type) >= Len(data)
           THEN /\ lresult' = Raised("IndexError")
                /\ img_pc' = "l_raised"
                /\ UNCHANGED << rgba, targetRGBA, sourceBlock_pos, copied, tile_no >>
           ELSE LET t == decompress(targetRGBA, data, sourceBlock_pos, format_type)
                    targets == {<< x + (p % 4), y + (p \div 4) >> :
                                    p \in LegacyCopied(x, y, width, height)}
                IN  /\ targetRGBA' = t
                    /\ copied' = copied \cup targets
                    /\ IF CopyOutside(x, y, width, height) # {}
                       THEN /\ lresult' = Raised("IndexError")
                            /\ img_pc' = "l_raised"
                            /\ UNCHANGED << rgba, sourceBlock_pos, tile_no >>
                       ELSE /\ rgba' = CopyTile(rgba, t, x, y, width, height)
                            /\ sourceBlock_pos' = sourceBlock_pos
                                                    + BytesPerBlock(format_type)
                            /\ tile_no' = tile_no + 1
                            /\ UNCHANGED << lresult, img_pc >>
    /\ UNCHANGED << width, height, data, format_type, pixels, block_idx, stored,
                    result >>
    /\ UNCHANGED besidesImg

\* decompressImage: return rgba
LegacyReturn ==
    /\ img_pc = "l_blocks"
    /\ tile_no = BlocksAcross(width) * BlocksAcross(height)
    /\ lresult' = Returned(AsBytes(rgba, width * height * 4))
    /\ img_pc' = "l_returned"
    /\ UNCHANGED << width, height, data, format_type, pixels, block_idx, stored,
                    result, rgba, targetRGBA, sourceBlock_pos, tile_no, copied >>
    /\ UNCHANGED besidesImg

ImageNext ==
    \/ StartDecompressImage
    \/ DecompressBlock
    \/ ReturnPixels
    \/ LegacyStart
    \/ LegacyBlock
    \/ LegacyReturn

SpecImage == InitImage /\ [][ImageNext]_vars

\* ------------------------------------------------------------------------
\* One package file through PKGV0001
\* ------------------------------------------------------------------------

\* The most entries in a file table
MaxFiles == 2

\* "PKGV0001" and "PKGV0002" as bytes
VersionSamples == { << 80, 75, 71, 86, 48, 48, 48, 49 >>,
                    << 80, 75, 71, 86, 48, 48, 48, 50 >> }

\* Table entries tried, name bytes first: ("a.tex", 0, 10), ("b.tex", 10, 5),
\* ("c/d", 3, 0) and ("b.tex", 10, 10)
EntrySamples ==
    { [name |-> << 97, 46, 116, 101, 120 >>, offset |-> 0, size |-> 10],
      [name |-> << 98, 46, 116, 101, 120 >>, offset |-> 10, size |-> 5],
      [name |-> << 99, 47, 100 >>, offset |-> 3, size |-> 0],
      [name |-> << 98, 46, 116, 101, 120 >>, offset |-> 10, size |-> 10] }

\* Lengths of the data segment tried
SegmentLengths == {0, 15, 20}

\* How many bytes are missing at the end of the file
CutLengths == {0, 7}

\* A length-prefixed string as it is written
LStr(bs) == U32(Len(bs)) \o bs

RECURSIVE TableBytes(_)
\* The file table as it is written
TableBytes(es) ==
    IF es = << >> THEN << >>
    ELSE LStr(es[1].name) \o U32(es[1].offset) \o U32(es[1].size)
         \o TableBytes(Tail(es))

\* The data segment: n bytes, each telling its position
SegmentBytes(n) == [t \in 1..n |-> 99 + t]

InitPkg ==
    /\ \E v \in VersionSamples, n \in 0..MaxFiles, seg \in SegmentLengths,
          cut \in CutLengths :
         \E es \in [1..n -> EntrySamples] :
            LET head == LStr(v) \o U32(n) \o TableBytes(es)
                full == head \o SegmentBytes(seg)
            IN  /\ archive = SubSeq(full, 1, IF Len(full) > cut
                                             THEN Len(full) - cut ELSE 0)
                /\ table_end = Len(head)
    /\ fd_pos = 0
    /\ fd_closed = FALSE
    /\ filecount = 0
    /\ files = << >>
    /\ ds_ptr = 0
    /\ req = 0
    /\ pkg_result = NoResult
    /\ pkg_pc = "new"
    /\ format_type = DXT1
    /\ BlkIdle
    /\ ImgIdle
    /\ MipIdle
    /\ TexIdle

\* A header check that lets every version string through
CompatibleAlways(version) == TRUE

\* _read_header: version != self.__class__.__name__ is what closes the file
Compatible(version) == version = "PKGV0001"

\* PKGV0001(filename): _prepare_file with _read_header, then _read_files
OpenPackage ==
    /\ pkg_pc = "new"
    /\ LET version == ReadStr(archive, 0)
           count   == Read(archive, version.pos, 4)
           start   == version.pos + Len(count)
           st      == ReadFiles(archive, FromBytesLE(count), 0,
                                [files |-> << >>, pos |-> start, ds_ptr |-> 0])
       IN  /\ filecount' = FromBytesLE(count)
           /\ IF ~Compatible(version.str)
              THEN /\ fd_closed' = TRUE
                   /\ fd_pos' = start
                   /\ pkg_result' = Raised("ValueError")
                   /\ pkg_pc' = "failed"
                   /\ UNCHANGED << files, ds_ptr >>
              ELSE /\ files' = st.files
                   /\ ds_ptr' = st.ds_ptr
                   /\ fd_pos' = st.pos
                   /\ pkg_result' = Returned(<< >>)
                   /\ pkg_pc' = "open"
                   /\ UNCHANGED fd_closed
    /\ UNCHANGED << archive, table_end, req >>
    /\ UNCHANGED besidesPkg

\* get_file(file) for the entry i of self.files
GetFile(i) ==
    /\ pkg_pc = "open"
    /\ LET at_ds  == SeekSet(fd_pos, ds_ptr)
           at_off == SeekCur(at_ds, files[i].offset)
           out    == Read(archive, at_off, files[i].size)
       IN  /\ fd_pos' = at_off + Len(out)
           /\ pkg_result' = Returned(out)
    /\ req' = i
    /\ UNCHANGED << archive, table_end, fd_closed, filecount, files, ds_ptr, pkg_pc >>
    /\ UNCHANGED besidesPkg

PkgNext == OpenPackage \/ \E i \in 1..Len(files) : GetFile(i)

SpecPkg == InitPkg /\ [][PkgNext]_vars

\* ------------------------------------------------------------------------
\* One mipmap through decompress_mipmap, again and again
\* ------------------------------------------------------------------------

\* The most decompress_mipmap calls on one mipmap
MaxCalls == 3

\* (width, height) of the mipmaps tried
MipDims == { << 4, 4 >>, << 2, 3 >>, << 5, 4 >> }

\* Format tags tried: every kind the dispatch tells apart
MipFormats ==
    { MipmapFormat_Invalid, MipmapFormat_RGBA8888, MipmapFormat_R8, MipmapFormat_RG88,
      MipmapFormat_CompressedDXT5, MipmapFormat_CompressedDXT3,
      MipmapFormat_CompressedDXT1, MipmapFormat_VideoMP4,
      MipmapFormat_ImageBMP, MipmapFormat_ImagePNG }

\* The stored bytes of an LZ4-compressed mipmap; only lz4.block.decompress reads them
CompressedSample == << 240, 1, 2, 3 >>

\* The body of a mipmap of a format that is not block-compressed
RawSample == << 10, 20, 30, 40 >>

\* How far the declared decompressed_bytes_count is from the length of the
\* decompressor's output
CountOffsets == {-1, 0, 1}

\* The body of a mipmap: for a block-compressed format the blocks of the grid
\* less `short` of them
MipPayload(format, w, h, short) ==
    IF format \in {MipmapFormat_CompressedDXT5, MipmapFormat_CompressedDXT3,
                   MipmapFormat_CompressedDXT1}
    THEN BlockRun(MatchedVariant(format), 1,
                  BlocksAcross(w) * BlocksAcross(h) - short)
    ELSE SubSeq(RawSample, 1, Len(RawSample) - short)

InitMip ==
    /\ \E d \in MipDims, f \in MipFormats, short \in {0, 1} :
         LET payload == MipPayload(f, d[1], d[2], short)
         IN  \/ /\ mipmap = TexMipmap(payload, d[1], d[2], FALSE, 0, f)
                /\ lz4_reply = Raised("LZ4BlockError")
             \/ \E off \in CountOffsets :
                   /\ Len(payload) + off >= 0
                   /\ mipmap = TexMipmap(CompressedSample, d[1], d[2], TRUE,
                                         Len(payload) + off, f)
                   /\ lz4_reply \in {Returned(payload), Raised("LZ4BlockError")}
    /\ mip_op = "none"
    /\ mip_entry = mipmap
    /\ mip_result = NoResult
    /\ mip_first = NoResult
    /\ mip_calls = 0
    /\ mip_variant = 0
    /\ format_type = DXT1
    /\ BlkIdle
    /\ ImgIdle
    /\ PkgIdle
    /\ TexIdle

\* decompress_mipmap(mipmap)
DecompressMipmap ==
    /\ mip_calls < MaxCalls
    /\ \E r \in {decompress_mipmap(mipmap, lz4_reply)} :
           /\ mipmap' = r.mipmap
           /\ mip_result' = r.result
           /\ mip_first' = IF mip_first.status = "none" /\ r.result.status = "returned"
                           THEN Returned(r.mipmap) ELSE mip_first
           /\ mip_variant' = r.variant
    /\ mip_op' = "decompress_mipmap"
    /\ mip_entry' = mipmap
    /\ mip_calls' = mip_calls + 1
    /\ UNCHANGED lz4_reply
    /\ UNCHANGED besidesMip

\* TexMipmapDecompressor(mipmap).lz4decompress(), called as decompressMipmap
\* calls it: on a mipmap flagged LZ4-compressed
LegacyLz4 ==
    /\ mipmap.is_lz4_compressed
    /\ mip_result' = LegacyLz4decompress(lz4_reply, mipmap.decompressed_bytes_count)
    /\ mip_op' = "lz4decompress"
    /\ mip_entry' = mipmap
    /\ UNCHANGED << mipmap, lz4_reply, mip_first, mip_calls, mip_variant >>
    /\ UNCHANGED besidesMip

\* TexMipmapDecompressor(mipmap).decompressMipmap()
LegacyDecompressMipmap ==
    /\ \E r \in {decompressMipmap(mipmap, lz4_reply)} :
           /\ mipmap' = r.mipmap
           /\ mip_result' = r.result
           /\ mip_variant' = r.variant
    /\ mip_op' = "decompressMipmap"
    /\ mip_entry' = mipmap
    /\ UNCHANGED << lz4_reply, mip_first, mip_calls >>
    /\ UNCHANGED besidesMip

MipNext == DecompressMipmap \/ LegacyLz4 \/ LegacyDecompressMipmap

SpecMip == InitMip /\ [][MipNext]_vars

\* ------------------------------------------------------------------------
\* One texture stream through Texture(file)
\* ------------------------------------------------------------------------

\* The most images of a container, mipmaps of an image and frames
MaxImages == 2
MaxMipmaps == 2
MaxFrames == 2

\* The most decompress_mipmap calls made on a returned texture
MaxRedone == 2

\* n as the 4 bytes of a signed integer, low byte first
I32Bytes(n) ==
    LET m == IF n < 0 THEN n + 2147483647 + 1 ELSE n
    IN  << m % 256, (m \div 256) % 256, (m \div 65536) % 256,
           (m \div 16777216) + (IF n < 0 THEN 128 ELSE 0) >>

\* "TEX", a letter and a four-digit number, as bytes: TexMagic(86, 5) is "TEXV0005"
TexMagic(letter, n) == << 84, 69, 88, letter, 48, 48, 48, 48 + n >>

\* Eight bytes that are no text
BadToken == << 255, 255, 255, 255, 255, 255, 255, 255 >>

\* A header as it is written, for an 8x4 texture of a 5x3 image
HeaderBytes(magic1, magic2, format, flags) ==
    magic1 \o << 0 >> \o magic2 \o << 0 >> \o I32Bytes(format) \o I32Bytes(flags)
      \o I32Bytes(8) \o I32Bytes(4) \o I32Bytes(5) \o I32Bytes(3) \o I32Bytes(0)

\* The 4x4 mipmaps tried: a DXT5 block stored plainly, half of it, LZ4-flagged
\* bytes that declare 16 or 17 bytes, and a flag that is neither 0 nor 1
MipmapSamples ==
    { [lz4 |-> 0, count |-> 0, data |-> BlockSample(DXT5, 1)],
      [lz4 |-> 0, count |-> 0, data |-> SubSeq(BlockSample(DXT5, 1), 1, 8)],
      [lz4 |-> 1, count |-> 16, data |-> CompressedSample],
      [lz4 |-> 1, count |-> 17, data |-> CompressedSample],
      [lz4 |-> 2, count |-> 16, data |-> BlockSample(DXT5, 1)] }

\* A mipmap record as it is written for a container version
MipmapBytes(version, m) ==
    I32Bytes(4) \o I32Bytes(4)
      \o (IF version = 1 THEN << >> ELSE I32Bytes(m.lz4) \o I32Bytes(m.count))
      \o I32Bytes(Len(m.data)) \o m.data

RECURSIVE Repeat(_, _)
\* bs, n times
Repeat(bs, n) == IF n <= 0 THEN << >> ELSE bs \o Repeat(bs, n - 1)

\* An image container as it is written: image_count images of mipmap_count
\* mipmaps each; code is the format field a version 3 container carries
ContainerBytes(magic, version, image_count, code, mipmap_count, m) ==
    magic \o << 0 >> \o I32Bytes(image_count)
      \o (IF version = 3 THEN I32Bytes(code) ELSE << >>)
      \o Repeat(I32Bytes(mipmap_count) \o Repeat(MipmapBytes(version, m), mipmap_count),
                image_count)

\* Frame records tried, as written: (0, 0.5, 0, 0, 4, 0, 0, 4) in the layout
\* "<if6i" and (1, 0.5, 0.0, 0.0, 2.5, 0.0, 0.0, -2.5) in the layout "<i7f"
FrameSamples ==
    { I32Bytes(0) \o << 0, 0, 0, 63 >> \o I32Bytes(0) \o I32Bytes(0) \o I32Bytes(4)
        \o I32Bytes(0) \o I32Bytes(0) \o I32Bytes(4),
      I32Bytes(1) \o << 0, 0, 0, 63 >> \o << 0, 0, 0, 0 >> \o << 0, 0, 0, 0 >>
        \o << 0, 0, 32, 64 >> \o << 0, 0, 0, 0 >> \o << 0, 0, 0, 0 >>
        \o << 0, 0, 32, 192 >> }

\* The canvas sizes a TEXS0003 container is written with
CanvasSamples == { << 0, 0 >>, << 7, 9 >> }

\* A frame info container as it is written
FrameInfoBytes(magic, version, frames_count, canvas, frame) ==
    magic \o << 0 >> \o I32Bytes(frames_count)
      \o (IF version = 3 THEN I32Bytes(canvas[1]) \o I32Bytes(canvas[2]) ELSE << >>)
      \o Repeat(frame, frames_count)

\* Header format tags tried: the six of TexFormat and three others
FormatTags == TexFormatValues \cup {-1, 5, 99}

\* What lz4.block.decompress may do with CompressedSample
Lz4Replies == { Returned(BlockSample(DXT5, 1)), Raised("LZ4BlockError") }

\* The container every header is tried with
PlainContainer ==
    ContainerBytes(TexMagic(66, 1), 1, 1, FIF_UNKNOWN, 1,
                   [lz4 |-> 0, count |-> 0, data |-> BlockSample(DXT5, 1)])

\* Headers of every format tag and of wrong tokens, each whole and cut short
HeaderStreams ==
    { SubSeq(HeaderBytes(m1, m2, f, 0) \o PlainContainer, 1, keep) :
        m1 \in {TexMagic(86, 5), TexMagic(86, 4), BadToken},
        m2 \in {TexMagic(73, 1), TexMagic(73, 2)},
        f \in FormatTags,
        keep \in {20, 45, 46, 46 + Len(PlainContainer)} }

\* Containers of every version and of wrong tokens, with their images, and a
\* TEXB0003 container of one mipmap for every FreeImageFormat value
Containers ==
    { ContainerBytes(TexMagic(66, v), v, ic, code, mc, m) :
        v \in 1..2, ic \in 0..MaxImages, code \in {FIF_UNKNOWN},
        mc \in 0..MaxMipmaps, m \in MipmapSamples }
    \cup
    { ContainerBytes(TexMagic(66, 3), 3, ic, code, mc, m) :
        ic \in 0..MaxImages, code \in {FIF_UNKNOWN, 13, 35},
        mc \in 0..MaxMipmaps, m \in MipmapSamples }
    \cup
    { ContainerBytes(TexMagic(66, 3), 3, 1, code, 1,
                     [lz4 |-> 0, count |-> 0, data |-> BlockSample(DXT5, 1)]) :
        code \in FreeImageFormatValues }
    \cup
    { ContainerBytes(magic, 1, 1, FIF_UNKNOWN, 1,
                     [lz4 |-> 0, count |-> 0, data |-> BlockSample(DXT5, 1)]) :
        magic \in {TexMagic(66, 4), TexMagic(83, 1), BadToken} }

\* Frame info containers of every layout and of wrong tokens
FrameInfos ==
    { FrameInfoBytes(TexMagic(83, v), v, n, canvas, frame) :
        v \in 1..4, n \in 0..MaxFrames, canvas \in CanvasSamples,
        frame \in FrameSamples }
    \cup { FrameInfoBytes(magic, 1, 1, << 0, 0 >>, frame) :
             magic \in {TexMagic(66, 1), BadToken}, frame \in FrameSamples }

\* How much of a stream is kept: all of it, all but 3 bytes, or what reaches
\* 5, 9 or 13 bytes into its last part
Keeps(before, part) ==
    { before + Len(part), before + Len(part) - 3, before + 5, before + 9, before + 13 }

\* Streams of a good header and every container
ContainerStreams ==
    UNION { { SubSeq(HeaderBytes(TexMagic(86, 5), TexMagic(73, 1), f, 0) \o c, 1, keep) :
                keep \in { k \in Keeps(HeaderSize, c) : k <= HeaderSize + Len(c) } } :
            f \in {TexFormat_RGBA8888, TexFormat_DXT1, TexFormat_DXT5},
            c \in Containers }

\* Streams of an animated texture: a good header with IsGif set, a container
\* and every frame info
GifStreams ==
    UNION { { SubSeq(HeaderBytes(TexMagic(86, 5), TexMagic(73, 1), TexFormat_RGBA8888, g)
                       \o PlainContainer \o fi, 1, keep) :
                keep \in { k \in Keeps(HeaderSize + Len(PlainContainer), fi) :
                             k <= HeaderSize + Len(PlainContainer) + Len(fi) } } :
            g \in {4, 5}, fi \in FrameInfos }

\* Streams of a texture whose flags have every bit but IsGif set among the
\* low three, with a frame info written after the container all the same
TrailedStreams ==
    { HeaderBytes(TexMagic(86, 5), TexMagic(73, 1), TexFormat_RGBA8888, 3)
        \o PlainContainer \o fi : fi \in FrameInfos }

InitTex ==
    /\ tex_stream \in HeaderStreams \cup ContainerStreams \cup GifStreams
                       \cup TrailedStreams
    /\ tex_lz4 \in Lz4Replies
    /\ tex_pos = 0
    /\ header = NoHeader
    /\ images_container = << >>
    /\ mipmaps_read = << >>
    /\ frame_info_container = << >>
    /\ frames_at = 0
    /\ tex_redone = 0
    /\ tex_result = NoResult
    /\ tex_pc = "new"
    /\ ReaderNew
    /\ format_type = DXT1
    /\ BlkIdle
    /\ ImgIdle
    /\ PkgIdle
    /\ MipIdle

\* Texture(file): self._read_header()
TexReadHeader ==
    /\ tex_pc = "new"
    /\ \E r \in {ReadHeader(tex_stream)} :
           /\ tex_pos' = r.pos
           /\ IF r.err # ""
              THEN /\ tex_result' = Raised(r.err)
                   /\ tex_pc' = "raised"
                   /\ UNCHANGED header
              ELSE /\ header' = r.value
                   /\ tex_pc' = "header"
                   /\ UNCHANGED tex_result
    /\ UNCHANGED << tex_stream, tex_lz4, images_container, mipmaps_read,
                    frame_info_container, frames_at, tex_redone >>
    /\ UNCHANGED readerVars
    /\ UNCHANGED besidesTex

\* Texture(file): self._read_image_container()
TexReadImageContainer ==
    /\ tex_pc = "header"
    /\ \E r \in {ReadImageContainer(tex_stream, tex_pos, header.format, tex_lz4)} :
           /\ tex_pos' = r.pos
           /\ IF r.err # ""
              THEN /\ tex_result' = Raised(r.err)
                   /\ tex_pc' = "raised"
                   /\ UNCHANGED << images_container, mipmaps_read >>
              ELSE /\ images_container' = r.value.container
                   /\ mipmaps_read' = r.value.read
                   /\ tex_pc' = "container"
                   /\ UNCHANGED tex_result
    /\ UNCHANGED << tex_stream, tex_lz4, header, frame_info_container, frames_at,
                    tex_redone >>
    /\ UNCHANGED readerVars
    /\ UNCHANGED besidesTex

\* Texture(file): if self.is_gif, self.frame_info_container.read()
TexReadFrameInfo ==
    /\ tex_pc = "container"
    /\ is_gif(header.flags)
    /\ \E r \in {ReadFrameInfo(tex_stream, tex_pos)} :
           /\ tex_pos' = r.pos
           /\ IF r.err # ""
              THEN /\ tex_result' = Raised(r.err)
                   /\ tex_pc' = "raised"
                   /\ UNCHANGED frame_info_container
              ELSE /\ frame_info_container' = r.value
                   /\ tex_result' = Returned("Texture")
                   /\ tex_pc' = "done"
    /\ frames_at' = tex_pos
    /\ UNCHANGED << tex_stream, tex_lz4, header, images_container, mipmaps_read,
                    tex_redone >>
    /\ UNCHANGED readerVars
    /\ UNCHANGED besidesTex

\* Texture(file): the end of __init__ when is_gif is false
TexReturn ==
    /\ tex_pc = "container"
    /\ ~is_gif(header.flags)
    /\ tex_result' = Returned("Texture")
    /\ tex_pc' = "done"
    /\ UNCHANGED << tex_stream, tex_lz4, tex_pos, header, images_container,
                    mipmaps_read, frame_info_container, frames_at, tex_redone >>
    /\ UNCHANGED readerVars
    /\ UNCHANGED besidesTex

\* decompress_mipmap(mipmap) called again on a mipmap of the returned texture
TexDecompressStored ==
    /\ tex_pc = "done"
    /\ tex_redone < MaxRedone
    /\ \E i \in 1..Len(images_container.images) :
         \E j \in 1..Len(images_container.images[i].mipmaps) :
           \E d \in {decompress_mipmap(images_container.images[i].mipmaps[j], tex_lz4)} :
              images_container' =
                 [images_container EXCEPT !.images[i].mipmaps[j] = d.mipmap]
    /\ tex_redone' = tex_redone + 1
    /\ UNCHANGED << tex_stream, tex_lz4, tex_pos, header, mipmaps_read,
                    frame_info_container, frames_at, tex_result, tex_pc >>
    /\ UNCHANGED readerVars
    /\ UNCHANGED besidesTex

\* What the TexReader steps leave alone
packagedVars == << tex_stream, tex_lz4, tex_pos, header, images_container,
                  mipmaps_read, frame_info_container, frames_at, tex_redone,
                  tex_result, tex_pc >>

\* TexReader(file) is tried on the stream once Texture(file) is over, before
\* any further call on the returned texture
ReaderTurn == tex_pc \in {"done", "raised"} /\ tex_redone = 0

\* TexReader(file): self._read_magic()
ReaderReadMagic ==
    /\ ReaderTurn
    /\ reader_pc = "new"
    /\ \E r \in {LegacyReadMagic(tex_stream)} :
           /\ reader_pos' = r.pos
           /\ IF r.err # ""
              THEN /\ reader_result' = Raised(r.err)
                   /\ reader_pc' = "raised"
                   /\ UNCHANGED texture
              ELSE /\ texture' = [texture EXCEPT !.magic1 = r.value.magic1,
                                                  !.magic2 = r.value.magic2]
                   /\ reader_pc' = "magic"
                   /\ UNCHANGED reader_result
    /\ UNCHANGED << images_at, reader_frames_at >>
    /\ UNCHANGED packagedVars
    /\ UNCHANGED besidesTex

\* TexReader(file): self.texture.header = self._read_header()
ReaderReadHeader ==
    /\ ReaderTurn
    /\ reader_pc = "magic"
    /\ \E r \in {LegacyReadHeader(tex_stream, reader_pos)} :
           /\ reader_pos' = r.pos
           /\ IF r.err # ""
              THEN /\ reader_result' = Raised(r.err)
                   /\ reader_pc' = "raised"
                   /\ UNCHANGED texture
              ELSE /\ texture' = [texture EXCEPT !.header = r.value]
                   /\ reader_pc' = "header"
                   /\ UNCHANGED reader_result
    /\ UNCHANGED << images_at, reader_frames_at >>
    /\ UNCHANGED packagedVars
    /\ UNCHANGED besidesTex

\* TexReader(file): self.texture.images_container = self._read_image_container()
ReaderReadImageContainer ==
    /\ ReaderTurn
    /\ reader_pc = "header"
    /\ \E r \in {LegacyReadImageContainer(tex_stream, reader_pos,
                                          texture.header.Format, tex_lz4)} :
           /\ reader_pos' = r.pos
           /\ IF r.err # ""
              THEN /\ reader_result' = Raised(r.err)
                   /\ reader_pc' = "raised"
                   /\ UNCHANGED << texture, images_at >>
              ELSE /\ texture' = [texture EXCEPT !.images_container = r.value.container]
                   /\ images_at' = r.value.images_at
                   /\ reader_pc' = "container"
                   /\ UNCHANGED reader_result
    /\ UNCHANGED reader_frames_at
    /\ UNCHANGED packagedVars
    /\ UNCHANGED besidesTex

\* TexReader(file): if self.texture.is_gif, frame_info_container.read()
ReaderReadFrameInfo ==
    /\ ReaderTurn
    /\ reader_pc = "container"
    /\ is_gif(texture.header.Flags)
    /\ \E r \in {LegacyReadFrameInfo(tex_stream, reader_pos)} :
           /\ reader_pos' = r.pos
           /\ IF r.err # ""
              THEN /\ reader_result' = Raised(r.err)
                   /\ reader_pc' = "raised"
                   /\ UNCHANGED texture
              ELSE /\ texture' = [texture EXCEPT !.frame_info_container = r.value]
                   /\ reader_result' = Returned("TexReader")
                   /\ reader_pc' = "done"
    /\ reader_frames_at' = reader_pos
    /\ UNCHANGED images_at
    /\ UNCHANGED packagedVars
    /\ UNCHANGED besidesTex

\* TexReader(file): the end of __init__ when is_gif is false
ReaderReturn ==
    /\ ReaderTurn
    /\ reader_pc = "container"
    /\ ~is_gif(texture.header.Flags)
    /\ reader_result' = Returned("TexReader")
    /\ reader_pc' = "done"
    /\ UNCHANGED << texture, reader_pos, images_at, reader_frames_at >>
    /\ UNCHANGED packagedVars
    /\ UNCHANGED besidesTex

TexNext ==
    \/ TexReadHeader
    \/ TexReadImageContainer
    \/ TexReadFrameInfo
    \/ TexReturn
    \/ TexDecompressStored
    \/ ReaderReadMagic
    \/ ReaderReadHeader
    \/ ReaderReadImageContainer
    \/ ReaderReadFrameInfo
    \/ ReaderReturn

SpecTex == InitTex /\ [][TexNext]_vars

\* ------------------------------------------------------------------------
\* Properties of the block decoders
\* ------------------------------------------------------------------------

\* Whether data holds a block for every tile of the grid
EnoughBlocks == Len(data) >= ExpectedSize(width, height, format_type)

\* 16 pixels (0, 0, 0, 255) as bytes
BlackOpaqueTile == [t \in 1..64 |-> IF t % 4 = 0 THEN 255 ELSE 0]

\* C1: given a block for every tile, each image decoder returns exactly
\* width * height * 4 bytes of RGBA for DXT1, DXT3 and DXT5; a 4x4 DXT1 image
\* of 8 zero bytes decodes to 16 pixels (0, 0, 0, 255).
C1_ReturnsRGBA ==
    /\ (img_pc \notin {"idle", "call", "blocks"} /\ EnoughBlocks) =>
          /\ result.status = "returned"
          /\ Len(result.value) = width * height * 4
          /\ (width = 4 /\ height = 4 /\ format_type = DXT1
                /\ data = << 0, 0, 0, 0, 0, 0, 0, 0 >>) =>
                    result.value = BlackOpaqueTile
    /\ (img_pc \in {"l_returned", "l_raised"} /\ EnoughBlocks) =>
          /\ lresult.status = "returned"
          /\ Len(lresult.value) = width * height * 4
          /\ (width = 4 /\ height = 4 /\ format_type = DXT1
                /\ data = << 0, 0, 0, 0, 0, 0, 0, 0 >>) =>
                    lresult.value = BlackOpaqueTile

\* The colour part of the block in hand
ColourPart == IF format_type = DXT1 THEN block_data ELSE Slice(block_data, 8, 16)

\* The raw packed endpoints of the block in hand
RawC0 == At(ColourPart, 0) + 256 * At(ColourPart, 1)
RawC1 == At(ColourPart, 2) + 256 * At(ColourPart, 3)

\* Componentwise floor((a + b) / 2) of two colours
Halves(a, b) == [k \in 1..3 |-> (a[k] + b[k]) \div 2]

\* Componentwise floor((2a + b) / 3) of two colours
Thirds(a, b) == [k \in 1..3 |-> (2 * a[k] + b[k]) \div 3]

\* Entry k of decompressColor's codes, as (r, g, b) and as alpha
CodeRGB(k) == << codes[4 * k], codes[4 * k + 1], codes[4 * k + 2] >>
CodeAlpha(k) == codes[4 * k + 3]

\* Entry k of the packaged decoder's palette, as (r, g, b)
PaletteRGB(k) == SubSeq(palette[k], 1, 3)

\* C2: slot0 and slot1 are the two endpoints with alpha 255; for DXT1 with
\* c0 <= c1 (as raw packed values) slot2 is the componentwise average with
\* alpha 255 and slot3 is (0, 0, 0, 0); otherwise (DXT1 with c0 > c1, DXT3 and
\* DXT5 for every ordering) slot2 and slot3 are the two thirds-interpolants,
\* both with alpha 255.
C2_Palette ==
    /\ blk_pc \in {"decoded", "done"} =>
          /\ PaletteRGB(0) = RGB565to888(RawC0)
          /\ PaletteRGB(1) = RGB565to888(RawC1)
          /\ IF format_type = DXT1 /\ RawC0 <= RawC1
             THEN /\ PaletteRGB(2) = Halves(PaletteRGB(0), PaletteRGB(1))
                  /\ palette[3] = << 0, 0, 0, 0 >>
             ELSE /\ PaletteRGB(2) = Thirds(PaletteRGB(0), PaletteRGB(1))
                  /\ PaletteRGB(3) = Thirds(PaletteRGB(1), PaletteRGB(0))
          /\ format_type = DXT1 =>
                /\ \A k \in 0..2 : palette[k][4] = 255
                /\ RawC0 > RawC1 => palette[3][4] = 255
    /\ blk_pc = "done" =>
          /\ CodeAlpha(0) = 255
          /\ CodeAlpha(1) = 255
          /\ CodeAlpha(2) = 255
          /\ IF format_type = DXT1 /\ RawC0 <= RawC1
             THEN /\ CodeRGB(2) = Halves(CodeRGB(0), CodeRGB(1))
                  /\ CodeRGB(3) = << 0, 0, 0 >>
                  /\ CodeAlpha(3) = 0
             ELSE /\ CodeRGB(2) = Thirds(CodeRGB(0), CodeRGB(1))
                  /\ CodeRGB(3) = Thirds(CodeRGB(1), CodeRGB(0))
                  /\ CodeAlpha(3) = 255

\* C2's case: a DXT1 block whose endpoints are ordered c0 < c1 as packed
\* values although c0 has the larger green and blue, decoded by both decoders
C2_Witness ==
    /\ blk_pc = "done"
    /\ format_type = DXT1
    /\ RawC0 = 2047
    /\ RawC1 = 2048
    /\ palette[3] = << 0, 0, 0, 0 >>
    /\ CodeAlpha(3) = 0

\* C3: the DXT5 alpha codebook has codes[6] = 0 and codes[7] = 255 exactly
\* when a0 <= a1, for every pair of endpoints.
C3_AlphaCodebookChoice ==
    /\ blk_pc \in {"decoded", "done"} =>
          ((alpha_palette[6] = 0 /\ alpha_palette[7] = 255)
              <=> At(block_data, 0) <= At(block_data, 1))
    /\ blk_pc = "done" =>
          ((alpha_codes[6] = 0 /\ alpha_codes[7] = 255)
              <=> At(block_data, 0) <= At(block_data, 1))

\* C3's case: equal endpoints, where the 5-step codebook is the one chosen
C3_Witness ==
    /\ blk_pc = "done"
    /\ At(block_data, 0) = 200
    /\ At(block_data, 1) = 200
    /\ alpha_palette[6] = 0 /\ alpha_palette[7] = 255
    /\ alpha_codes[6] = 0 /\ alpha_codes[7] = 255

\* The tiles decompressImage has decoded so far
LegacyDecoded == sourceBlock_pos \div BytesPerBlock(format_type)

\* C4: a tile pixel is written only at a coordinate inside
\* [0, width) x [0, height), and every pixel of a decoded tile that is inside
\* holds the tile's value at (py, px).
C4_EdgeClipping ==
    /\ \A c \in stored : c[1] < height /\ c[2] < width
    /\ \A c \in copied : c[1] < width /\ c[2] < height
    /\ img_pc \notin {"idle", "call"} /\ result.status # "raised" =>
          \A b \in 0..(block_idx - 1) :
             LET x == 4 * (b % BlocksAcross(width))
                 y == 4 * (b \div BlocksAcross(width))
                 t == Tile(Slice(data, b * BlockSize(format_type),
                                 (b + 1) * BlockSize(format_type)), format_type)
             IN  \A py \in 0..3, px \in 0..3 :
                    (x + px < width /\ y + py < height) =>
                       pixels[<< y + py, x + px >>]
                          = SubSeq(t[4 * py + px], 1, Channels(format_type))
    /\ img_pc \in {"l_blocks", "l_returned"} =>
          \A n \in 0..(LegacyDecoded - 1) :
             LET x == 4 * (n % BlocksAcross(width))
                 y == 4 * (n \div BlocksAcross(width))
                 t == decompress([q \in 0..63 |-> 0], data,
                                 n * BytesPerBlock(format_type), format_type)
             IN  \A py \in 0..3, px \in 0..3 :
                    (x + px < width /\ y + py < height) =>
                       \A k \in 0..3 :
                          rgba[4 * (width * (y + py) + (x + px)) + k]
                             = t[4 * (4 * py + px) + k]

\* C4's case: a 5x3 image, two tiles, both clipped, decoded by both decoders
C4_Witness ==
    /\ img_pc = "l_returned"
    /\ width = 5 /\ height = 3
    /\ result.status = "returned"
    /\ block_idx = 2
    /\ LegacyDecoded = 2
    /\ Cardinality(stored) = 15
    /\ Cardinality(copied) = 15

\* ------------------------------------------------------------------------
\* Properties of the package reader
\* ------------------------------------------------------------------------

\* The bytes left in the archive from the entry's first byte
Available(e) ==
    IF table_end + e.offset >= Len(archive) THEN 0
    ELSE Len(archive) - (table_end + e.offset)

\* C5: for an entry whose range [offset, offset + size) lies inside the data
\* segment, get_file returns exactly the size bytes at table end + offset ..
\* table end + offset + size - 1, whatever get_file calls came before.
C5_GetFileRange ==
    (pkg_pc = "open" /\ req # 0 /\ Available(files[req]) >= files[req].size) =>
        pkg_result = Returned(SubSeq(archive,
                                     table_end + files[req].offset + 1,
                                     table_end + files[req].offset + files[req].size))

\* C5's case: the entries (0, 10) and (10, 5) over a 15-byte data segment, the
\* second read after the cursor was left at the end of the file
C5_Witness ==
    /\ pkg_pc = "open"
    /\ Len(files) = 2
    /\ files[1].offset = 0 /\ files[1].size = 10
    /\ files[2].offset = 10 /\ files[2].size = 5
    /\ Len(archive) = table_end + 15
    /\ req = 1
    /\ fd_pos = table_end + 10
    /\ pkg_result = Returned(SegmentBytes(10))

\* C6: when fewer than size bytes are left from table end + offset, get_file
\* raises; it never returns fewer than size bytes.
C6_ShortReadFails ==
    (pkg_pc = "open" /\ req # 0) =>
        /\ Available(files[req]) < files[req].size => pkg_result.status = "raised"
        /\ pkg_result.status = "returned" =>
              Len(pkg_result.value) = files[req].size

\* ------------------------------------------------------------------------
\* Properties of mipmap decompression
\* ------------------------------------------------------------------------

\* The fields of a mipmap that decompression works on
Decompressed(m) == << m.data, m.format, m.is_lz4_compressed >>

\* C7: once one decompress_mipmap call has returned, every later call leaves
\* data, format and is_lz4_compressed as that call left them.
C7_Idempotent ==
    mip_first.status = "returned" =>
        Decompressed(mipmap) = Decompressed(mip_first.value)

\* C7's case: a 4x4 DXT5 mipmap flagged LZ4-compressed, decoded to 64 bytes by
\* the first call, and a second call that returned
C7_Witness ==
    /\ mip_calls = 2
    /\ mip_op = "decompress_mipmap"
    /\ mip_first.status = "returned"
    /\ mip_result.status = "returned"
    /\ mipmap.width = 4 /\ mipmap.height = 4
    /\ mipmap.decompressed_bytes_count = 16
    /\ mip_entry.format = MipmapFormat_RGBA8888
    /\ ~mip_entry.is_lz4_compressed
    /\ Len(mipmap.data) = 64

\* C8: on a mipmap flagged LZ4-compressed, when the decompressor's output is
\* not decompressed_bytes_count bytes long, the call raises DecompressionError.
C8_SizeMismatch ==
    (/\ mip_op # "none"
     /\ mip_entry.is_lz4_compressed
     /\ lz4_reply.status = "returned"
     /\ Len(lz4_reply.value) # mip_entry.decompressed_bytes_count) =>
        /\ mip_result.status = "raised"
        /\ mip_result.value = "DecompressionError"

\* C8's case: decompress_mipmap on a mipmap that declares one byte more than
\* the decompressor gives, refused
C8_Witness ==
    /\ mip_op = "decompress_mipmap"
    /\ mip_entry.is_lz4_compressed
    /\ lz4_reply.status = "returned"
    /\ Len(lz4_reply.value) = 16
    /\ mip_entry.decompressed_bytes_count = 17
    /\ mip_result.status = "raised"
    /\ mipmap = mip_entry

\* ------------------------------------------------------------------------
\* Properties of the texture stream reader
\* ------------------------------------------------------------------------

\* The 8 bytes written at a position of the stream, when all of them are there
TokenAt(pos) == Slice(tex_stream, pos, pos + 8)
HasTokenAt(pos) == Len(tex_stream) >= pos + 8

\* Both header tokens are written as expected and the header is whole
GoodHeaderTokens ==
    /\ Len(tex_stream) >= 46
    /\ TokenAt(0) = << 84, 69, 88, 86, 48, 48, 48, 53 >>
    /\ TokenAt(9) = << 84, 69, 88, 73, 48, 48, 48, 49 >>

\* The format tag as it is written in the header
WrittenFormat == I32(Slice(tex_stream, 18, 22))

\* _read_header has returned
HeaderAccepted == header.magic1 = "TEXV0005"

\* The parse ended with the given error
EndedWith(e) ==
    tex_pc = "raised" /\ tex_result.status = "raised" /\ tex_result.value = e

\* C9: a header whose format tag is not one of 0, 4, 6, 7, 8, 9 ends the parse
\* with InvalidTextureFormat before any byte of the image container is read;
\* a header with both tokens right and format 7 is accepted.
C9_InvalidFormat ==
    (tex_pc # "new" /\ GoodHeaderTokens) =>
        /\ WrittenFormat \notin {0, 4, 6, 7, 8, 9} =>
              EndedWith("InvalidTextureFormat") /\ tex_pos <= 46
        /\ WrittenFormat = 7 => HeaderAccepted

\* C10: a token that differs from its literal ends the parse with
\* UnknownMagicError: magic1 or magic2 of the header, the image container's
\* token when it is none of TEXB0001..3, the frame info's token when it is
\* none of TEXS0001..3.
C10_UnknownMagic ==
    /\ (/\ tex_pc # "new"
        /\ HasTokenAt(0) /\ HasTokenAt(9)
        /\ \/ TokenAt(0) # << 84, 69, 88, 86, 48, 48, 48, 53 >>
           \/ TokenAt(9) # << 84, 69, 88, 73, 48, 48, 48, 49 >>)
          => EndedWith("UnknownMagicError")
    /\ (/\ HeaderAccepted
        /\ tex_pc # "header"
        /\ HasTokenAt(46)
        /\ TokenAt(46) \notin { << 84, 69, 88, 66, 48, 48, 48, 48 + n >> : n \in 1..3 })
          => EndedWith("UnknownMagicError")
    /\ (/\ frames_at > 0
        /\ HasTokenAt(frames_at)
        /\ TokenAt(frames_at) \notin { << 84, 69, 88, 83, 48, 48, 48, 48 + n >> : n \in 1..3 })
          => EndedWith("UnknownMagicError")

\* The position after the mipmap record written at pos, or -1 when its fields
\* or the bytes its length prefix declares are not all in the stream
MipmapEnd(pos, version) ==
    LET prefix   == pos + (IF version = 1 THEN 8 ELSE 16)
        declared == I32(Slice(tex_stream, prefix, prefix + 4))
    IN  IF prefix + 4 > Len(tex_stream) THEN -1
        ELSE IF declared < 0 \/ prefix + 4 + declared > Len(tex_stream) THEN -1
        ELSE prefix + 4 + declared

RECURSIVE StoredEnd(_, _, _)
\* The position after the stored images from the i-th on (of the i-th, the
\* mipmaps from the j-th on; j = 0 is its mipmap count), as they lie in the
\* stream from pos; -1 when one of them is not whole
StoredEnd(pos, i, j) ==
    IF pos < 0 THEN -1
    ELSE IF i > Len(images_container.images) THEN pos
    ELSE IF j = 0
    THEN IF pos + 4 > Len(tex_stream) THEN -1 ELSE StoredEnd(pos + 4, i, 1)
    ELSE IF j > Len(images_container.images[i].mipmaps) THEN StoredEnd(pos, i + 1, 0)
    ELSE StoredEnd(MipmapEnd(pos, images_container.version), i, j + 1)

\* Where the first image of the container is written
ImagesStart == 46 + 9 + 4 + (IF images_container.version = 3 THEN 4 ELSE 0)

\* Where the image container was found to end
ContainerEnd == IF frames_at > 0 THEN frames_at ELSE tex_pos

\* C11: a parse goes on only over whole fields: once the container is stored,
\* every stored mipmap's fields and declared payload bytes lie inside the
\* stream, one after another up to where the reader stands; a returned
\* animated texture has its frame records whole too; and a parse ended by a
\* short fixed-size field (struct.error) has used up the stream, with no
\* texture returned.
C11_ShortReadAborts ==
    /\ tex_pc \in {"container", "done"} =>
          /\ ImagesStart <= Len(tex_stream)
          /\ StoredEnd(ImagesStart, 1, 0) = ContainerEnd
    /\ (tex_pc = "done" /\ frames_at > 0) =>
          /\ tex_pos = frames_at + 13
                         + (IF frame_info_container.magic = "TEXS0003" THEN 8 ELSE 0)
                         + FrameSize * Len(frame_info_container.frames)
          /\ tex_pos <= Len(tex_stream)
    /\ EndedWith("struct.error") =>
          /\ tex_pos = Len(tex_stream)
          /\ tex_result.status # "returned"
    /\ tex_result.status = "returned" => tex_pc = "done"

\* C11's case: a TEXB0001 container whose only mipmap declares 16 payload
\* bytes with 13 left in the stream; the parse ended there and stored nothing
C11_Witness ==
    /\ HeaderAccepted
    /\ EndedWith("ValueError")
    /\ TokenAt(46) = << 84, 69, 88, 66, 48, 48, 48, 49 >>
    /\ Len(tex_stream) = 88
    /\ I32(Slice(tex_stream, 71, 75)) = 16
    /\ tex_pos = 88
    /\ images_container = << >>

\* The compressed format tags
CompressedTags ==
    {MipmapFormat_CompressedDXT5, MipmapFormat_CompressedDXT3, MipmapFormat_CompressedDXT1}

\* C12: every mipmap of a stored container (so of every returned texture) is
\* not flagged LZ4-compressed and carries no compressed format tag, and this
\* stays so under any later decompress_mipmap calls on those mipmaps.
C12_StoredTerminal ==
    tex_pc \in {"container", "done"} =>
        \A i \in 1..Len(images_container.images) :
           \A j \in 1..Len(images_container.images[i].mipmaps) :
              LET m == images_container.images[i].mipmaps[j]
              IN  /\ ~m.is_lz4_compressed
                  /\ m.format \notin CompressedTags

\* C12's case: a returned DXT5 texture of a TEXB0002 container whose first
\* mipmap was written LZ4-flagged, stored as 64 raw bytes, after two more
\* decompress_mipmap calls
C12_Witness ==
    /\ tex_pc = "done"
    /\ tex_redone = 2
    /\ header.format = TexFormat_DXT5
    /\ TokenAt(46) = << 84, 69, 88, 66, 48, 48, 48, 50 >>
    /\ I32(Slice(tex_stream, 71, 75)) = 1
    /\ Len(images_container.images) = 2
    /\ Len(images_container.images[2].mipmaps) = 2
    /\ images_container.images[2].mipmaps[2].format = MipmapFormat_RGBA8888
    /\ Len(images_container.images[2].mipmaps[2].data) = 64

\* The mipmap's bytes as the last call had them after its LZ4 step
AfterLz4 == IF mip_entry.is_lz4_compressed THEN lz4_reply.value ELSE mip_entry.data

\* C13: a call that returned found either a compressed tag, and then ran the
\* block decoder with that tag's own variant (DXT5, DXT3, DXT1) and left the
\* format RGBA8888, or a raw or external-image tag, and then ran no decoder
\* and left the format and the bytes (as they were after the LZ4 step).
C13_Dispatch ==
    (mip_op \in {"decompress_mipmap", "decompressMipmap"}
       /\ mip_result.status = "returned") =>
        /\ mip_entry.format \in CompressedTags =>
              /\ mip_variant = (CASE mip_entry.format = MipmapFormat_CompressedDXT5 -> DXT5
                                  [] mip_entry.format = MipmapFormat_CompressedDXT3 -> DXT3
                                  [] mip_entry.format = MipmapFormat_CompressedDXT1 -> DXT1)
              /\ mipmap.format = MipmapFormat_RGBA8888
        /\ (\/ mip_entry.format \in {MipmapFormat_RGBA8888, MipmapFormat_R8,
                                      MipmapFormat_RG88}
            \/ mip_entry.format >= MipmapFormat_ImageBMP) =>
              /\ mip_variant = 0
              /\ mipmap.format = mip_entry.format
              /\ mipmap.data = AfterLz4

\* The external-image-format code as it is written in a TEXB0003 container
WrittenCode == I32(Slice(tex_stream, 59, 63))

\* C14: when the container read is over for a stream whose TEXB0003 container
\* carries a format code outside [-1, 34], the parse has ended with
\* InvalidTextureFormat and no texture is returned.
C14_CodeOutOfRange ==
    (/\ HeaderAccepted
     /\ tex_pc # "header"
     /\ Len(tex_stream) >= 63
     /\ TokenAt(46) = << 84, 69, 88, 66, 48, 48, 48, 51 >>
     /\ WrittenCode \notin (-1)..34) =>
        /\ EndedWith("InvalidTextureFormat")
        /\ tex_result.status # "returned"

\* C15: in an opened package whose file table is whole, _ds_ptr is the
\* position right after the table, for every file count from 0 on, before
\* and after any get_file calls.
C15_DataSegmentStart ==
    (pkg_pc = "open" /\ Len(archive) >= table_end) => ds_ptr = table_end

RECURSIVE RecordStart(_)
\* Where the i-th record of the file table is written, after the 12 bytes of
\* the version string and the 4 of the file count (names are shorter than 256)
RecordStart(i) ==
    IF i = 1 THEN 16
    ELSE RecordStart(i - 1) + 4 + archive[RecordStart(i - 1) + 1] + 8

\* The value of the 4 bytes written from position pos on, low byte first
WrittenU32(pos) ==
    archive[pos + 1] + 256 * archive[pos + 2] + 65536 * archive[pos + 3]
      + 16777216 * archive[pos + 4]

\* C16: a package opened over a whole file table has as many entries as the
\* header's file count says, the i-th with the name, offset and size written
\* in the i-th record of the table, entries of equal names included.
C16_FilesInTableOrder ==
    (pkg_pc = "open" /\ Len(archive) >= table_end) =>
        /\ filecount = WrittenU32(12)
        /\ Len(files) = filecount
        /\ \A i \in 1..Len(files) :
              LET at == RecordStart(i)
                  n  == WrittenU32(at)
              IN  /\ files[i].name = Decode(SubSeq(archive, at + 5, at + 4 + n))
                  /\ files[i].offset = WrittenU32(at + 4 + n)
                  /\ files[i].size = WrittenU32(at + 8 + n)

\* C16's case: a table of two records of the same name "b.tex", sizes 5 and
\* 10, opened: both are in the list, in that order
C16_Witness ==
    /\ pkg_pc = "open"
    /\ Len(archive) >= table_end
    /\ Len(files) = 2
    /\ files[1].name = "b.tex" /\ files[1].size = 5
    /\ files[2].name = "b.tex" /\ files[2].size = 10

\* ------------------------------------------------------------------------
\* Properties of the index tables and codebooks of a block
\* ------------------------------------------------------------------------

\* Bit q of the 48-bit value block bytes 2..7 hold, low byte first
AlphaBit(q) == (At(block_data, 2 + (q \div 8)) \div (2 ^ (q % 8))) % 2

\* Bits 3p..3p+2 of that value
AlphaBits(p) == AlphaBit(3 * p) + 2 * AlphaBit(3 * p + 1) + 4 * AlphaBit(3 * p + 2)

\* C17: of a DXT5 block, each decoder's alpha index of tile pixel p is bits
\* 3p..3p+2 of the 48-bit little-endian value of block bytes 2..7.
C17_AlphaIndexBits ==
    /\ (blk_pc \in {"decoded", "done"} /\ format_type = DXT5) =>
          \A p \in 0..15 : alpha_indices[p] = AlphaBits(p)
    /\ (blk_pc = "done" /\ format_type = DXT5) =>
          \A p \in 0..15 : l_alpha_indices[p] = AlphaBits(p)

\* The entry k of the alpha codebook of the endpoints a0 and a1
AlphaCode(k, a0, a1) ==
    IF k = 0 THEN a0
    ELSE IF k = 1 THEN a1
    ELSE IF a0 <= a1
    THEN IF k = 6 THEN 0
         ELSE IF k = 7 THEN 255
         ELSE ((5 - (k - 1)) * a0 + (k - 1) * a1) \div 5
    ELSE ((7 - (k - 1)) * a0 + (k - 1) * a1) \div 7

\* C18: for all alpha endpoints a0 and a1, each decoder's 8-entry codebook is
\* a0, a1, then for a0 <= a1 the four 5-step interpolants, 0 and 255, and for
\* a0 > a1 the six 7-step interpolants.
C18_AlphaCodebook ==
    LET a0 == At(block_data, 0)
        a1 == At(block_data, 1)
    IN  /\ blk_pc \in {"decoded", "done", "buffered"} =>
              \A k \in 0..7 : alpha_palette[k] = AlphaCode(k, a0, a1)
        /\ blk_pc \in {"done", "buffered"} =>
              \A k \in 0..7 : alpha_codes[k] = AlphaCode(k, a0, a1)
        /\ blk_pc = "buffered" =>
              \A k \in 0..7 : buffer_alpha[k] = AlphaCode(k, a0, a1)

\* The 2-bit field of pixel p in the four index bytes of the colour part
ColourIndexBits(p) == (At(ColourPart, 4 + (p \div 4)) \div (2 ^ (2 * (p % 4)))) % 4

\* C19: in every colour block the index of pixel p (0..15) is
\* (indexByte[p div 4] >> 2 * (p mod 4)) & 3, where indexByte[0..3] are the
\* bytes at offsets 4..7 of the colour part: all four bytes are used.
C19_ColourIndexBits ==
    /\ blk_pc \in {"decoded", "done"} =>
          \A p \in 0..15 : indices[p] = ColourIndexBits(p)
    /\ blk_pc = "done" =>
          \A p \in 0..15 : l_indices[p] = ColourIndexBits(p)

\* A 5-bit and a 6-bit component widened to 8 bits by bit replication
Replicate5(v) == ((v * 8) % 256) + (v \div 4)
Replicate6(v) == ((v * 4) % 256) + (v \div 16)

\* The three components of a packed RGB565 value widened by bit replication
Replicated565(value) ==
    << Replicate5((value \div 2048) % 32),
       Replicate6((value \div 32) % 64),
       Replicate5(value % 32) >>

\* C20: each RGB565 endpoint is expanded to 8 bits per channel by bit
\* replication, (v << 3) | (v >> 2) for the 5-bit red and blue and
\* (v << 2) | (v >> 4) for the 6-bit green, in every decoder.
C20_EndpointsReplicated ==
    /\ blk_pc \in {"decoded", "done"} =>
          /\ PaletteRGB(0) = Replicated565(RawC0)
          /\ PaletteRGB(1) = Replicated565(RawC1)
    /\ blk_pc = "done" =>
          /\ CodeRGB(0) = Replicated565(RawC0)
          /\ CodeRGB(1) = Replicated565(RawC1)

\* ------------------------------------------------------------------------
\* Properties of an image decoded from too little data
\* ------------------------------------------------------------------------

\* The whole blocks data holds
WholeBlocks == Len(data) \div BlockSize(format_type)

\* The pixels (column, row) of the image that lie in tile n of the grid
TilePixels(n) ==
    { c \in (0..(width - 1)) \X (0..(height - 1)) :
         (c[2] \div 4) * BlocksAcross(width) + (c[1] \div 4) = n }

\* C21: when data holds fewer blocks than the ceil(width/4) x ceil(height/4)
\* grid needs, each image decoder still returns, without an error, and every
\* pixel of a tile for which no block remains is zero bytes, while the tiles
\* that have a block are decoded.
C21_ShortDataLeavesZero ==
    /\ (img_pc \notin {"idle", "call", "blocks"} /\ ~EnoughBlocks) =>
          result.status = "returned"
    /\ (img_pc \in {"l_returned", "l_raised"} /\ ~EnoughBlocks) =>
          /\ lresult.status = "returned"
          /\ LegacyDecoded = WholeBlocks
          /\ \A n \in WholeBlocks..(BlocksAcross(width) * BlocksAcross(height) - 1) :
                \A c \in TilePixels(n), k \in 1..4 :
                   lresult.value[4 * (width * c[2] + c[1]) + k] = 0

\* ------------------------------------------------------------------------
\* Properties of the records of a stored container
\* ------------------------------------------------------------------------

\* The signed integer written at a position of the stream
WrittenInt(pos) == I32(Slice(tex_stream, pos, pos + 4))

RECURSIVE ImageStart(_), MipmapStart(_, _)
\* Where the i-th stored image (its mipmap count) is written
ImageStart(i) ==
    IF i = 1 THEN ImagesStart
    ELSE LET n == Len(images_container.images[i - 1].mipmaps)
         IN  IF n = 0 THEN ImageStart(i - 1) + 4
             ELSE MipmapEnd(MipmapStart(i - 1, n), images_container.version)

\* Where the j-th mipmap record of the i-th stored image is written
MipmapStart(i, j) ==
    IF j = 1 THEN ImageStart(i) + 4
    ELSE MipmapEnd(MipmapStart(i, j - 1), images_container.version)

\* C22: every mipmap record of every image of a stored container was read in
\* the layout of the container's version: for version 1 width, height and a
\* length-prefixed payload, with is_lz4_compressed False; for versions 2 and 3
\* width, height, LZ4 flag, declared decompressed byte count and a
\* length-prefixed payload, with is_lz4_compressed true exactly when the flag
\* field is 1.
C22_RecordLayout ==
    tex_pc \in {"container", "done"} =>
        /\ Len(mipmaps_read) = Len(images_container.images)
        /\ \A i \in 1..Len(mipmaps_read) :
              /\ Len(mipmaps_read[i]) = Len(images_container.images[i].mipmaps)
              /\ \A j \in 1..Len(mipmaps_read[i]) :
                    LET p == MipmapStart(i, j)
                        m == mipmaps_read[i][j]
                    IN  /\ m.width = WrittenInt(p)
                        /\ m.height = WrittenInt(p + 4)
                        /\ IF images_container.version = 1
                           THEN /\ m.is_lz4_compressed = FALSE
                                /\ m.data = Slice(tex_stream, p + 12,
                                                  p + 12 + WrittenInt(p + 8))
                           ELSE /\ m.is_lz4_compressed = (WrittenInt(p + 8) = 1)
                                /\ m.decompressed_bytes_count = WrittenInt(p + 12)
                                /\ m.data = Slice(tex_stream, p + 20,
                                                  p + 20 + WrittenInt(p + 16))

\* C22's case: a returned texture of a TEXB0002 container of two images of
\* two mipmaps, each written with the flag 2 and 16 payload bytes, and the
\* last of them read as not compressed
C22_Witness ==
    /\ tex_pc = "done"
    /\ images_container.version = 2
    /\ Len(mipmaps_read) = 2
    /\ Len(mipmaps_read[2]) = 2
    /\ WrittenInt(MipmapStart(2, 2) + 8) = 2
    /\ mipmaps_read[2][2].is_lz4_compressed = FALSE
    /\ Len(mipmaps_read[2][2].data) = 16

\* The names of the FreeImageFormat members FIF_BMP = 0 to FIF_RAW = 34, in
\* the order of their values (5 is FIF_LBM, with the alias FIF_IFF)
FreeImageNames ==
    << "BMP", "ICO", "JPEG", "JNG", "KOALA", "LBM", "MNG", "PBM", "PBMRAW",
       "PCD", "PCX", "PGM", "PGMRAW", "PNG", "PPM", "PPMRAW", "RAS", "TARGA",
       "TIFF", "WBMP", "PSD", "CUT", "XBM", "XPM", "DDS", "GIF", "HDR",
       "FAXG3", "SGI", "EXR", "J2K", "JP2", "PFM", "PICT", "RAW" >>

\* The names of the MipmapFormat members from ImageBMP = 1000 on, in the
\* order of their values
ImageTagNames ==
    << "BMP", "ICO", "JPEG", "JNG", "KOALA", "LBM", "IFF", "MNG", "PBM",
       "PBMRAW", "PCD", "PCX", "PGM", "PGMRAW", "PNG", "PPM", "PPMRAW",
       "RAS", "TARGA", "TIFF", "WBMP", "PSD", "CUT", "XBM", "XPM", "DDS",
       "GIF", "HDR", "FAXG3", "SGI", "EXR", "J2K", "JP2", "PFM", "PICT",
       "RAW" >>

\* The format tag the header's format is resolved to when the container
\* carries no external-image format
RawTag(tex_format) ==
    CASE tex_format = TexFormat_RGBA8888 -> MipmapFormat_RGBA8888
      [] tex_format = TexFormat_DXT5 -> MipmapFormat_CompressedDXT5
      [] tex_format = TexFormat_DXT3 -> MipmapFormat_CompressedDXT3
      [] tex_format = TexFormat_DXT1 -> MipmapFormat_CompressedDXT1
      [] tex_format = TexFormat_R8 -> MipmapFormat_R8
      [] tex_format = TexFormat_RG88 -> MipmapFormat_RG88
      [] OTHER -> MipmapFormat_Invalid

\* C23: every mipmap of a stored container was given the format resolved from
\* the container's external-image format and the header's format: for an
\* external format other than FIF_UNKNOWN the external-image tag of the same
\* name, which satisfies is_image and is the tag of no other code of 0..34;
\* for FIF_UNKNOWN the tag RGBA8888, CompressedDXT5, CompressedDXT3,
\* CompressedDXT1, R8, RG88 of the header's RGBA8888, DXT5, DXT3, DXT1, R8,
\* RG88. After an accepted header the resolution raises no Exception and
\* never gives MipmapFormat.Invalid.
C23_FormatResolution ==
    /\ tex_pc \in {"container", "done"} =>
          \A i \in 1..Len(mipmaps_read) :
             \A j \in 1..Len(mipmaps_read[i]) :
                LET tag  == mipmaps_read[i][j].format
                    code == images_container.format
                IN  /\ tag # MipmapFormat_Invalid
                    /\ code # FIF_UNKNOWN =>
                          /\ is_image(tag)
                          /\ tag - MipmapFormat_ImageBMP + 1 \in 1..Len(ImageTagNames)
                          /\ ImageTagNames[tag - MipmapFormat_ImageBMP + 1]
                                = FreeImageNames[code + 1]
                          /\ \A other \in 0..FIF_RAW :
                                other # code =>
                                   free_image_format_to_mipmap_format(other).value # tag
                    /\ code = FIF_UNKNOWN => tag = RawTag(header.format)
    /\ HeaderAccepted => ~EndedWith("Exception")

\* C23's case: a returned texture whose TEXB0003 container carries the
\* external-image format 34 (FIF_RAW), its mipmap tagged ImageRAW = 1035
C23_Witness ==
    /\ tex_pc = "done"
    /\ images_container.format = FIF_RAW
    /\ Len(mipmaps_read) = 1
    /\ Len(mipmaps_read[1]) = 1
    /\ mipmaps_read[1][1].format = MipmapFormat_ImageBMP + 35

\* C23's other case: a returned DXT3 texture whose container carries no
\* external-image format, its mipmap given the tag CompressedDXT3
C23_WitnessRaw ==
    /\ tex_pc = "done"
    /\ images_container.format = FIF_UNKNOWN
    /\ header.format = TexFormat_DXT3
    /\ Len(mipmaps_read) = 1
    /\ Len(mipmaps_read[1]) = 1
    /\ mipmaps_read[1][1].format = MipmapFormat_CompressedDXT3

\* ------------------------------------------------------------------------
\* Properties of the format field of a container
\* ------------------------------------------------------------------------

\* Where the image count of a container is written: after the two header
\* magics with their pads, the seven header integers, and the container's
\* magic with its pad
ImageCountAt == 46 + 9

\* The stream ends with the image count of a TEXB0001 or TEXB0002 container
\* that declares no image
EndsWithEmptyContainer ==
    /\ Len(tex_stream) = ImageCountAt + 4
    /\ TokenAt(46) \in {TexMagic(66, 1), TexMagic(66, 2)}
    /\ WrittenInt(ImageCountAt) = 0

\* C24: both readers consume the four bytes of the format field, directly
\* after the image count, only for a TEXB0003 container. For TEXB0001 and
\* TEXB0002 the format stays FIF_UNKNOWN and the first image's mipmap count
\* is the integer directly after the image count; for TEXB0003 it is the
\* integer after the format field. The stored images lie one after another
\* from there up to where the container was found to end, and a TEXB0001 or
\* TEXB0002 container without images is read from a stream that ends with its
\* image count.
C24_FormatFieldOnlyV3 ==
    /\ (tex_pc \notin {"new", "header"} /\ HeaderAccepted /\ EndsWithEmptyContainer) =>
           images_container # << >>
    /\ (reader_pc \notin {"new", "magic", "header"} /\ texture.header # << >>
           /\ EndsWithEmptyContainer) =>
           texture.images_container # << >>
    /\ tex_pc \in {"container", "done"} =>
          LET field == IF images_container.magic = "TEXB0003" THEN 4 ELSE 0
          IN  /\ Len(images_container.images) = WrittenInt(ImageCountAt)
              /\ images_container.magic \in {"TEXB0001", "TEXB0002"} =>
                     images_container.format = FIF_UNKNOWN
              /\ Len(mipmaps_read) >= 1 =>
                     Len(mipmaps_read[1]) = WrittenInt(ImageCountAt + 4 + field)
              /\ StoredEnd(ImageCountAt + 4 + field, 1, 0) = ContainerEnd
    /\ reader_pc \in {"container", "done"} =>
          LET container == texture.images_container
              field     == IF container.Magic = "TEXB0003" THEN 4 ELSE 0
          IN  /\ Len(container.Images) = WrittenInt(ImageCountAt)
              /\ images_at = ImageCountAt + 4 + field
              /\ container.Magic \in {"TEXB0001", "TEXB0002"} =>
                     container.ImageFormat = FIF_UNKNOWN
              /\ container.Magic = "TEXB0003" =>
                     container.ImageFormat = WrittenInt(ImageCountAt + 4)
              /\ Len(container.Images) >= 1 =>
                     Len(container.Images[1].Mipmaps) = WrittenInt(images_at)

\* C24's case: both readers returned a TEXB0002 container whose first image
\* has the two mipmaps that the integer after the image count declares
C24_Witness ==
    /\ tex_pc = "done"
    /\ reader_pc = "done"
    /\ images_container.magic = "TEXB0002"
    /\ texture.images_container.Magic = "TEXB0002"
    /\ Len(mipmaps_read) >= 1
    /\ WrittenInt(ImageCountAt + 4) = 2
    /\ Len(mipmaps_read[1]) = 2
    /\ Len(texture.images_container.Images[1].Mipmaps) = 2

\* ------------------------------------------------------------------------
\* Properties of the frames of an animated texture
\* ------------------------------------------------------------------------

\* The number of frames the frame info written at a position declares
DeclaredFrames(at) == WrittenInt(at + MagicSize)

\* Where the first frame record of the frame info written at a position lies:
\* after the magic, its pad, the frame count and, for TEXS0003 only, the
\* canvas pair (MagicSize counts the pad)
RecordsAt(at) == at + MagicSize + 4 + (IF TokenAt(at) = TexMagic(83, 3) THEN 8 ELSE 0)

\* The stream holds, from a position on, a frame info of one of the three
\* magics with at least one frame and all the records it declares
WholeFrameInfo(at) ==
    /\ HasTokenAt(at)
    /\ TokenAt(at) \in {TexMagic(83, 1), TexMagic(83, 2), TexMagic(83, 3)}
    /\ Len(tex_stream) >= RecordsAt(at)
    /\ DeclaredFrames(at) >= 1
    /\ DeclaredFrames(at) <= (Len(tex_stream) - RecordsAt(at)) \div FrameSize

\* The k-th four bytes (from 0) of the i-th record (from 1) of a frame info
FrameWord(at, i, k) ==
    LET from == RecordsAt(at) + FrameSize * (i - 1) + 4 * k
    IN  Slice(tex_stream, from, from + 4)

\* The eight fields are the eight words of the record, in the order written,
\* each taken as an integer or as a float
InWireOrder(fields, at, i) ==
    \A k \in 0..7 :
       fields[k + 1] \in { Dyadic(I32(FrameWord(at, i, k)), 0), F32(FrameWord(at, i, k)) }

\* C25: for each of TEXS0001, TEXS0002 and TEXS0003, either reader given a
\* whole frame info that declares n frames (n at least 1) returns with exactly
\* n frames, the eight fields of the i-th being the eight words of the i-th
\* 32-byte record in the order written, the records starting after the frame
\* count, or after the canvas pair for TEXS0003 only.
C25_FramesAsDeclared ==
    /\ (tex_pc \in {"done", "raised"} /\ frames_at > 0 /\ WholeFrameInfo(frames_at)) =>
          /\ tex_pc = "done"
          /\ Len(frame_info_container.frames) = DeclaredFrames(frames_at)
          /\ tex_pos = RecordsAt(frames_at) + FrameSize * DeclaredFrames(frames_at)
          /\ \A i \in 1..Len(frame_info_container.frames) :
                LET f == frame_info_container.frames[i]
                IN  InWireOrder(<< f.image_id, f.frame_time, f.x, f.y, f.width,
                                   f.width_y, f.height_x, f.height >>, frames_at, i)
    /\ (reader_pc \in {"done", "raised"} /\ reader_frames_at > 0
           /\ WholeFrameInfo(reader_frames_at)) =>
          /\ reader_pc = "done"
          /\ Len(texture.frame_info_container.Frames) = DeclaredFrames(reader_frames_at)
          /\ reader_pos = RecordsAt(reader_frames_at)
                            + FrameSize * DeclaredFrames(reader_frames_at)
          /\ \A i \in 1..Len(texture.frame_info_container.Frames) :
                LET f == texture.frame_info_container.Frames[i]
                IN  InWireOrder(<< f.ImageId, f.FrameTime, f.X, f.Y, f.Width,
                                   f.WidthY, f.HeightX, f.Height >>, reader_frames_at, i)

\* The part of C25 about Texture alone
C25_PackagedFrames ==
    (tex_pc \in {"done", "raised"} /\ frames_at > 0 /\ WholeFrameInfo(frames_at)) =>
        /\ tex_pc = "done"
        /\ Len(frame_info_container.frames) = DeclaredFrames(frames_at)
        /\ tex_pos = RecordsAt(frames_at) + FrameSize * DeclaredFrames(frames_at)
        /\ \A i \in 1..Len(frame_info_container.frames) :
              LET f == frame_info_container.frames[i]
              IN  InWireOrder(<< f.image_id, f.frame_time, f.x, f.y, f.width,
                                 f.width_y, f.height_x, f.height >>, frames_at, i)

\* The canvas pair as it is written in a TEXS0003 frame info
WrittenCanvas(at) == << WrittenInt(at + MagicSize + 4), WrittenInt(at + MagicSize + 8) >>

\* Neither value of a pair is 0
NoZero(pair) == pair[1] # 0 /\ pair[2] # 0

\* C26: once a frame info has been read by either reader, gif_width and
\* gif_height are, for TEXS0001 and TEXS0002, the first frame's width and
\* height truncated to integers, and for TEXS0003 the canvas pair as it is
\* written, whatever values it holds.
C26_CanvasSize ==
    /\ (tex_pc = "done" /\ frames_at > 0) =>
          LET fi == frame_info_container
          IN  IF fi.magic = "TEXS0003"
              THEN << fi.gif_width, fi.gif_height >> = WrittenCanvas(frames_at)
              ELSE /\ fi.gif_width = IntOf(fi.frames[1].width).value
                   /\ fi.gif_height = IntOf(fi.frames[1].height).value
    /\ (reader_pc = "done" /\ reader_frames_at > 0) =>
          LET fi == texture.frame_info_container
          IN  IF fi.Magic = "TEXS0003"
              THEN << fi.GifWidth, fi.GifHeight >> = WrittenCanvas(reader_frames_at)
              ELSE /\ fi.GifWidth = IntOf(fi.Frames[1].Width).value
                   /\ fi.GifHeight = IntOf(fi.Frames[1].Height).value

\* What both readers do: the canvas pair of TEXS0003 is kept only when
\* neither of its values is 0; in every other case the size is the first
\* frame's width and height truncated to integers
C26_CanvasSizeUnlessZero ==
    /\ (tex_pc = "done" /\ frames_at > 0) =>
          LET fi == frame_info_container
          IN  IF fi.magic = "TEXS0003" /\ NoZero(WrittenCanvas(frames_at))
              THEN << fi.gif_width, fi.gif_height >> = WrittenCanvas(frames_at)
              ELSE /\ fi.gif_width = IntOf(fi.frames[1].width).value
                   /\ fi.gif_height = IntOf(fi.frames[1].height).value
    /\ (reader_pc = "done" /\ reader_frames_at > 0) =>
          LET fi == texture.frame_info_container
          IN  IF fi.Magic = "TEXS0003" /\ NoZero(WrittenCanvas(reader_frames_at))
              THEN << fi.GifWidth, fi.GifHeight >> = WrittenCanvas(reader_frames_at)
              ELSE /\ fi.GifWidth = IntOf(fi.Frames[1].Width).value
                   /\ fi.GifHeight = IntOf(fi.Frames[1].Height).value

\* ------------------------------------------------------------------------
\* Properties of the IsGif flag
\* ------------------------------------------------------------------------

\* The flags as they are written in the header
WrittenFlags == WrittenInt(22)

\* The bit of value 4 is set in the written flags
GifBitWritten == (WrittenFlags \div 4) % 2 = 1

\* C27: once Texture has read the image container, a frame info is read, from
\* where the container ended, exactly when the bit of value 4 is set in the
\* header flags. When the bit is clear the texture is returned with the
\* reader standing after the last mipmap of the last image, no frame info
\* stored and no magic refused, whatever follows in the stream.
C27_FrameInfoIffGif ==
    (tex_pc \in {"done", "raised"} /\ images_container # << >>) =>
        /\ (frames_at > 0) = GifBitWritten
        /\ GifBitWritten => frames_at = StoredEnd(ImagesStart, 1, 0)
        /\ ~GifBitWritten =>
              /\ tex_pc = "done"
              /\ tex_pos = StoredEnd(ImagesStart, 1, 0)
              /\ frame_info_container = << >>

\* C27's case: a texture with flags 3 whose container is followed by bytes
\* that are no frame info magic is returned with those bytes unread
C27_Witness ==
    /\ tex_pc = "done"
    /\ WrittenFlags = 3
    /\ tex_pos < Len(tex_stream)
    /\ TokenAt(tex_pos) = BadToken
    /\ frames_at = 0

\* ------------------------------------------------------------------------
\* Properties of a DXT3 block
\* ------------------------------------------------------------------------

\* A 4-bit value n widened to a byte: n | (n << 4)
WidenedNibble(n) == BitOr(n, n * 16)

\* The 5-, 6- and 5-bit fields of the endpoint packed, low byte first, in the
\* two block bytes from a position on
EndpointFields(at) ==
    LET value == At(block_data, at) + 256 * At(block_data, at + 1)
    IN  << value \div 2048, (value \div 32) % 64, value % 32 >>

\* The leading 5, 6 and 5 bits of the components of a colour
LeadingBits(rgb) == << rgb[1] \div 8, rgb[2] \div 4, rgb[3] \div 8 >>

\* The 2-bit field of pixel p in the last four bytes of a 16-byte block
LastBytesIndex(p) == (At(block_data, 12 + (p \div 4)) \div (2 ^ (2 * (p % 4)))) % 4

\* C28: of a DXT3 block, alpha byte i (0..7) gives pixel 2i the widened low
\* nibble and pixel 2i+1 the widened high nibble, in both decoders; and the
\* colour part is the last 8 bytes: the two endpoints are the ones packed in
\* bytes 8..11, and the colour indices come from bytes 12..15 (the older
\* decoder's from the three of them it reads).
C28_Dxt3Alpha ==
    /\ (blk_pc \in {"decoded", "done"} /\ format_type = DXT3) =>
          /\ \A i \in 0..7 :
                /\ tile[2 * i][4] = WidenedNibble(At(block_data, i) % 16)
                /\ tile[2 * i + 1][4] = WidenedNibble(At(block_data, i) \div 16)
          /\ LeadingBits(PaletteRGB(0)) = EndpointFields(8)
          /\ LeadingBits(PaletteRGB(1)) = EndpointFields(10)
          /\ \A p \in 0..15 :
                /\ indices[p] = LastBytesIndex(p)
                /\ SubSeq(tile[p], 1, 3) = PaletteRGB(indices[p])
    /\ (blk_pc = "done" /\ format_type = DXT3) =>
          /\ \A i \in 0..7 :
                /\ tileRGBA[8 * i + 3] = WidenedNibble(At(block_data, i) % 16)
                /\ tileRGBA[8 * i + 7] = WidenedNibble(At(block_data, i) \div 16)
          /\ LeadingBits(CodeRGB(0)) = EndpointFields(8)
          /\ LeadingBits(CodeRGB(1)) = EndpointFields(10)
          /\ \A p \in 0..11 :
                /\ l_indices[p] = LastBytesIndex(p)
                /\ << tileRGBA[4 * p], tileRGBA[4 * p + 1], tileRGBA[4 * p + 2] >>
                      = CodeRGB(l_indices[p])

\* C28's case: a DXT3 block whose first alpha byte is 240 went through both
\* decoders: pixel 0 has alpha 0 and pixel 1 has alpha 255
C28_Witness ==
    /\ blk_pc = "done"
    /\ format_type = DXT3
    /\ At(block_data, 0) = 240
    /\ tile[0][4] = 0 /\ tile[1][4] = 255
    /\ tileRGBA[3] = 0 /\ tileRGBA[7] = 255

\* ------------------------------------------------------------------------
\* Properties of a package of another version
\* ------------------------------------------------------------------------

\* The bytes of the version string as they are written: what is there of the
\* bytes the length prefix declares
WrittenVersion == Slice(archive, 4, 4 + WrittenU32(0))

\* "PKGV0001" as bytes
Pkgv0001Bytes == << 80, 75, 71, 86, 48, 48, 48, 49 >>

WrongLength ==
    lz4_reply.status = "returned"
      /\ Len(lz4_reply.value) # mip_entry.decompressed_bytes_count

\* C30: a decompress_mipmap or decompressMipmap call on a mipmap flagged
\* LZ4-compressed, whose LZ4 output has not the declared length (or whose LZ4
\* call raised), raises, DecompressionError in the first case, and leaves the
\* mipmap as it was before the call: data is the compressed payload,
\* is_lz4_compressed is True, and the format is the one it had.
C30_FailedLz4LeavesMipmap ==
    (/\ mip_op \in {"decompress_mipmap", "decompressMipmap"}
     /\ mip_entry.is_lz4_compressed
     /\ (WrongLength \/ lz4_reply.status = "raised")) =>
        /\ mip_result.status = "raised"
        /\ WrongLength => mip_result.value = "DecompressionError"
        /\ mipmap = mip_entry
        /\ mipmap.data = CompressedSample
        /\ mipmap.is_lz4_compressed
        /\ mipmap.format = mip_entry.format

\* C30's case: a DXT5 mipmap declaring one byte more than LZ4 gives went
\* through decompress_mipmap: DecompressionError, the mipmap still compressed
C30_Witness ==
    /\ mip_op = "decompress_mipmap"
    /\ WrongLength
    /\ mip_entry.decompressed_bytes_count = Len(lz4_reply.value) + 1
    /\ mip_result = Raised("DecompressionError")
    /\ mipmap.format = MipmapFormat_CompressedDXT5
    /\ mipmap.is_lz4_compressed
    /\ mipmap.data = CompressedSample

====
